---- MODULE Spec2Model ----
(***************************************************************************)
(* Model of the interview-practice application: the SQLite persistence     *)
(* layer (database.py), the memory subsystem (user_memory.py), the LLM     *)
(* gateway as seen by its callers (ai_engine.py) and the two interview     *)
(* pages (pages/3_DSA_Interview.py, pages/4_HR_Interview.py).              *)
(*                                                                         *)
(* Tables are sequences of rows in insertion order; the AUTOINCREMENT id   *)
(* of a row is its index.  Text is a sequence of tokens, a token being one *)
(* character or one fixed phrase; dicts are functions over string keys.    *)
(***************************************************************************)
EXTENDS Integers, Sequences, FiniteSets, TLC

VARIABLES
    interview_sessions,     \* table interview_sessions
    interview_questions,    \* table interview_questions
    chat_messages,          \* table chat_messages
    interview_recordings,   \* table interview_recordings
    user_memory,            \* table user_memory
    tab_violations,         \* table tab_violations
    proctoring_violations,  \* table proctoring_violations
    now,                    \* value of CURRENT_TIMESTAMP (one-second ticks)
    st,                     \* st.session_state of the browser session
    listed,                 \* result of the last get_chat_messages call
    browser,                \* the candidate's browser tab: URL query, page scripts
    auth_tokens,            \* table auth_tokens
    users,                  \* table users
    saved_facts,            \* history: latest value saved and not deleted, per (owner, key)
    last_call               \* history: the last operation performed and its arguments

db_vars == <<interview_sessions, interview_questions, chat_messages,
             interview_recordings, user_memory, tab_violations,
             proctoring_violations>>

vars == <<interview_sessions, interview_questions, chat_messages,
          interview_recordings, user_memory, tab_violations,
          proctoring_violations, now, st, listed, browser, auth_tokens,
          users, saved_facts, last_call>>

(***************************************************************************)
(* Bounds of the model.                                                    *)
(***************************************************************************)
MaxSessions == 2
MaxClock == 1
MaxChat == 3
MaxViolations == 2
MaxMemoryRows == 2
MaxQuestions == 2
MaxDetections == 3
MaxJsTicks == 3
MaxFocusLosses == 1
MaxTokens == 3
MaxHints == 1
MaxReviewChat == 5

(***************************************************************************)
(* Generic helpers.                                                        *)
(***************************************************************************)
\* SQL NULL / Python None: in a string column, in a text column (a text no
\* input spells), in a JSON column or a dict, and in an integer id
\* (AUTOINCREMENT ids start at 1)
NULL == "NULL"
NoText == <<NULL>>
None == [none |-> TRUE]
NoId == 0

EmptyDict == [k \in {} |-> 0]

\* dict.get(key, default)
Get(d, k, default) == IF k \in DOMAIN d THEN d[k] ELSE default

Range(s) == {s[i] : i \in DOMAIN s}

\* SELECT ... WHERE session_id = ?: the ids of a table's rows of one session
SessionRows(table, session_id) == {i \in DOMAIN table : table[i].session_id = session_id}

(***************************************************************************)
(* database.py: interview_sessions                                         *)
(***************************************************************************)
ScoreColumns == {"overall_score", "technical_score", "communication_score",
                 "reasoning_score", "problem_solving_score"}

\* INSERT INTO interview_sessions: the column defaults of the schema
NewSessionRow(user_id, session_type) ==
    [user_id |-> user_id, session_type |-> session_type,
     status |-> "in_progress",
     overall_score |-> 0, technical_score |-> 0, communication_score |-> 0,
     reasoning_score |-> 0, problem_solving_score |-> 0,
     feedback_json |-> EmptyDict, tab_violations |-> 0]

create_session(sessions, user_id, session_type) ==
    Append(sessions, NewSessionRow(user_id, session_type))

\* update_session_scores writing the report but not the status
update_session_scores_keeps_status(sessions, session_id, overall, technical, communication, reasoning, problem_solving, feedback) ==
    [i \in DOMAIN sessions |->
        IF i = session_id
        THEN [sessions[i] EXCEPT
                !.overall_score = overall,
                !.technical_score = technical,
                !.communication_score = communication,
                !.reasoning_score = reasoning,
                !.problem_solving_score = problem_solving,
                !.feedback_json = feedback]
        ELSE sessions[i]]

update_session_scores(sessions, session_id, overall, technical, communication, reasoning, problem_solving, feedback) ==
    [i \in DOMAIN sessions |->
        IF i = session_id
        THEN [sessions[i] EXCEPT
                !.overall_score = overall,
                !.technical_score = technical,
                !.communication_score = communication,
                !.reasoning_score = reasoning,
                !.problem_solving_score = problem_solving,
                !.feedback_json = feedback,
                !.status = "completed"]
        ELSE sessions[i]]

\* complete_session writing the other terminal status
complete_session_abandons(sessions, session_id) ==
    [i \in DOMAIN sessions |->
        IF i = session_id
        THEN [sessions[i] EXCEPT !.status = "abandoned"]
        ELSE sessions[i]]

complete_session(sessions, session_id) ==
    [i \in DOMAIN sessions |->
        IF i = session_id
        THEN [sessions[i] EXCEPT !.status = "completed"]
        ELSE sessions[i]]

(***************************************************************************)
(* database.py: violations                                                 *)
(***************************************************************************)
\* the UPDATE half of increment_tab_violations
IncrementCounter(sessions, session_id) ==
    [i \in DOMAIN sessions |->
        IF i = session_id
        THEN [sessions[i] EXCEPT !.tab_violations = @ + 1]
        ELSE sessions[i]]

\* increment_tab_violations: INSERT and UPDATE in one transaction; the
\* foreign key rejects an unknown session and the transaction is dropped
increment_tab_violations(session_id, violation_type) ==
    IF session_id \in DOMAIN interview_sessions
    THEN /\ tab_violations' = Append(tab_violations,
                [session_id |-> session_id, violation_type |-> violation_type])
         /\ interview_sessions' = IncrementCounter(interview_sessions, session_id)
    ELSE UNCHANGED <<tab_violations, interview_sessions>>

\* save_proctoring_violation: INSERT INTO proctoring_violations only
save_proctoring_violation(session_id, violation_type) ==
    IF session_id \in DOMAIN interview_sessions
    THEN proctoring_violations' = Append(proctoring_violations,
                [session_id |-> session_id, violation_type |-> violation_type])
    ELSE UNCHANGED proctoring_violations

\* the ViolationEvent rows of a session, tab-switch and webcam combined
ViolationEvents(session_id) ==
    Cardinality(SessionRows(tab_violations, session_id))
    + Cardinality(SessionRows(proctoring_violations, session_id))

(***************************************************************************)
(* database.py: interview_questions                                        *)
(***************************************************************************)
save_question(questions, session_id, question_number, question_text) ==
    Append(questions,
        [session_id |-> session_id, question_number |-> question_number,
         question_text |-> question_text,
         candidate_response_text |-> NoText, candidate_code |-> NoText,
         voice_transcript |-> NoText, ai_analysis |-> None,
         code_correctness_score |-> 0, approach_score |-> 0,
         communication_score |-> 0])

\* update_question_response: one UPDATE that writes every response column,
\* the omitted arguments with their defaults (None, 0)
update_question_response(questions, question_id, candidate_response_text, candidate_code, voice_transcript, ai_analysis, code_correctness_score, approach_score, communication_score) ==
    [i \in DOMAIN questions |->
        IF i = question_id
        THEN [questions[i] EXCEPT
                !.candidate_response_text = candidate_response_text,
                !.candidate_code = candidate_code,
                !.voice_transcript = voice_transcript,
                !.ai_analysis = ai_analysis,
                !.code_correctness_score = code_correctness_score,
                !.approach_score = approach_score,
                !.communication_score = communication_score]
        ELSE questions[i]]

\* get_session_questions: the ids of the session's rows, ORDER BY
\* question_number
RECURSIVE OrderByQuestionNumber(_, _)
OrderByQuestionNumber(questions, ids) ==
    IF ids = {} THEN <<>>
    ELSE LET first == CHOOSE i \in ids : \A k \in ids :
                          \/ questions[i].question_number < questions[k].question_number
                          \/ questions[i].question_number = questions[k].question_number /\ i <= k
         IN <<first>> \o OrderByQuestionNumber(questions, ids \ {first})

get_session_questions(questions, session_id) ==
    OrderByQuestionNumber(questions, SessionRows(questions, session_id))

\* the question numbers of one session, as a set
QuestionNumbers(session_id) ==
    {interview_questions[i].question_number :
        i \in SessionRows(interview_questions, session_id)}

(***************************************************************************)
(* database.py: chat_messages and interview_recordings                     *)
(***************************************************************************)
save_chat_message(messages, session_id, role, content) ==
    Append(messages, [session_id |-> session_id, role |-> role,
                      content |-> content, timestamp |-> now])

save_recording_event(events, session_id, event_type) ==
    Append(events, [session_id |-> session_id, event_type |-> event_type,
                    timestamp |-> now])

\* the ids of a session's chat rows, in insertion order
RECURSIVE SessionChatIds(_, _)
SessionChatIds(session_id, n) ==
    IF n = 0 THEN <<>>
    ELSE IF chat_messages[n].session_id = session_id
         THEN Append(SessionChatIds(session_id, n - 1), n)
         ELSE SessionChatIds(session_id, n - 1)

\* SELECT ... ORDER BY timestamp: every arrangement of the session's rows
\* with non-decreasing timestamps; SQL leaves the order of rows with equal
\* sort keys unspecified
OrderByTimestamp(session_id) ==
    LET ids == SessionRows(chat_messages, session_id)
        n == Cardinality(ids)
    IN {q \in [1..n -> ids] :
          /\ \A i, j \in 1..n : i # j => q[i] # q[j]
          /\ \A i \in 1..n : i < n =>
                chat_messages[q[i]].timestamp <= chat_messages[q[i + 1]].timestamp}

(***************************************************************************)
(* database.py: user_memory                                                *)
(***************************************************************************)
Users == {1, 2}
MemoryKeys == {"years_of_experience", "favorite_language"}
MemoryValues == {"3 years", "4 years"}
Categories == {"general", "skill"}

MemoryIds(mem, user_id, memory_key) ==
    {i \in DOMAIN mem : mem[i].user_id = user_id /\ mem[i].memory_key = memory_key}

\* save_user_memory as a plain INSERT, without the ON CONFLICT clause
save_user_memory_insert_only(mem, user_id, memory_key, memory_value, category, source_session_id) ==
    Append(mem, [user_id |-> user_id, memory_key |-> memory_key,
                 memory_value |-> memory_value, category |-> category,
                 source_session_id |-> source_session_id,
                 created_at |-> now, updated_at |-> now])

\* INSERT ... ON CONFLICT(user_id, memory_key) DO UPDATE SET memory_value,
\* updated_at, source_session_id
save_user_memory(mem, user_id, memory_key, memory_value, category, source_session_id) ==
    IF MemoryIds(mem, user_id, memory_key) # {}
    THEN [i \in DOMAIN mem |->
            IF i \in MemoryIds(mem, user_id, memory_key)
            THEN [mem[i] EXCEPT !.memory_value = memory_value,
                                !.updated_at = now,
                                !.source_session_id = source_session_id]
            ELSE mem[i]]
    ELSE Append(mem, [user_id |-> user_id, memory_key |-> memory_key,
                      memory_value |-> memory_value, category |-> category,
                      source_session_id |-> source_session_id,
                      created_at |-> now, updated_at |-> now])

RECURSIVE delete_user_memory(_, _, _)
delete_user_memory(mem, user_id, memory_key) ==
    IF mem = <<>> THEN <<>>
    ELSE IF Head(mem).user_id = user_id /\ Head(mem).memory_key = memory_key
         THEN delete_user_memory(Tail(mem), user_id, memory_key)
         ELSE <<Head(mem)>> \o delete_user_memory(Tail(mem), user_id, memory_key)

(***************************************************************************)
(* Text.  A text is a sequence of tokens; a token is one character or one  *)
(* fixed phrase.                                                           *)
(***************************************************************************)
Whitespace == {" ", "\n"}

\* str.strip()
RECURSIVE LStrip(_)
LStrip(t) == IF t # <<>> /\ Head(t) \in Whitespace THEN LStrip(Tail(t)) ELSE t

RECURSIVE RStrip(_)
RStrip(t) ==
    IF t # <<>> /\ t[Len(t)] \in Whitespace THEN RStrip(SubSeq(t, 1, Len(t) - 1))
    ELSE t

Strip(t) == RStrip(LStrip(t))

\* phrases a candidate may type, and the literals the pages put around them
ExperiencePhrase == "I have 3 years of experience"
QuestionIntro == "Question n: title, description"
CodeOpen == "Code: (fence python)"
CodeClose == "(fence)"
ExplanationLabel == "Explanation: "
UnavailableMessage == "AI analysis unavailable. Your response has been recorded."
HrIntro == "Welcome! I'll be conducting your HR interview"
MoveOn == "Let's move on. "
VoiceLabel == <<"[", "V", "o", "i", "c", "e", "]", ":", " ">>
TextLabel == <<"[", "T", "e", "x", "t", "]", ":", " ">>

\* len() of one token
TokenLen(tok) ==
    CASE tok = ExperiencePhrase -> 28
      [] tok = QuestionIntro -> 60
      [] tok = CodeOpen -> 20
      [] tok = CodeClose -> 5
      [] tok = ExplanationLabel -> 18
      [] tok = UnavailableMessage -> 57
      [] tok = HrIntro -> 122
      [] tok = MoveOn -> 15
      [] OTHER -> 1

\* len() of a text
RECURSIVE TextLen(_)
TextLen(t) == IF t = <<>> THEN 0 ELSE TokenLen(Head(t)) + TextLen(Tail(t))

\* the values the widgets and the transcriber can hold
TextInputs == {<<>>, <<" ">>, <<ExperiencePhrase>>}
CodeInputs == {<<>>, <<"x">>}
VoiceInputs == {<<"v">>}

(***************************************************************************)
(* ai_engine.py as seen by its callers.  The upstream reply of one _chat   *)
(* call is an error (no key, rate limit, provider failure), a text that is *)
(* not JSON, or a JSON value.                                              *)
(***************************************************************************)
ChatOutcomes == {"error", "invalid_json", "json"}

Raised == [raised |-> TRUE]
Returned(v) == [raised |-> FALSE, value |-> v]

FallbackReport ==
    [overall_score |-> 50, technical_score |-> 50, communication_score |-> 50,
     reasoning_score |-> 50, problem_solving_score |-> 50,
     executive_summary |-> "Interview completed. Unable to generate detailed report."]

\* reports the model may send back as JSON: one with every key, one that
\* leaves score keys out
FullReport ==
    [overall_score |-> 70, technical_score |-> 60, communication_score |-> 80,
     reasoning_score |-> 90, problem_solving_score |-> 100,
     executive_summary |-> "summary"]

PartialReport == [overall_score |-> 70, executive_summary |-> "summary"]

JsonReports == {FullReport, PartialReport}

generate_final_report(outcome, json) ==
    IF outcome = "error" THEN Raised
    ELSE IF outcome = "invalid_json" THEN Returned(FallbackReport)
    ELSE Returned(json)

\* questions: the model's JSON reply, the gateway's fallback for a reply
\* that is not JSON, and the page's fallback for a gateway exception
GeneratedQuestion == [title |-> "Generated", hints |-> <<"hint">>]
GatewayFallbackQuestion == [title |-> "Two Sum", hints |-> <<"Think about using a hash map">>]
PageFallbackQuestion == [title |-> "Two Sum", hints |-> <<"Use a hash map to store complements">>]

generate_dsa_question(outcome) ==
    IF outcome = "error" THEN Raised
    ELSE IF outcome = "invalid_json" THEN Returned(GatewayFallbackQuestion)
    ELSE Returned(GeneratedQuestion)

JsonAnalysis ==
    [code_correctness |-> [score |-> 8], approach_analysis |-> [score |-> 7],
     communication_analysis |-> [score |-> 9],
     overall_feedback |-> "feedback"]

FallbackAnalysis ==
    [code_correctness |-> [score |-> 5], approach_analysis |-> [score |-> 5],
     communication_analysis |-> [score |-> 5],
     overall_feedback |-> "Unable to fully analyze the response. Please try again."]

analyze_candidate_response(outcome) ==
    IF outcome = "error" THEN Raised
    ELSE IF outcome = "invalid_json" THEN Returned(FallbackAnalysis)
    ELSE Returned(JsonAnalysis)

\* the reply text is returned as it is, never parsed
InterviewerReply == "interviewer reply"

generate_interviewer_response(outcome) ==
    IF outcome = "error" THEN Raised ELSE Returned(<<InterviewerReply>>)

\* HR questions: the model's JSON, the gateway's fallback list and the list
\* the page falls back to when the gateway raises
GeneratedHrQuestions == <<[question |-> "Generated HR question"]>>

GatewayFallbackHrQuestions ==
    <<[question |-> "Tell me about yourself."],
      [question |-> "Describe a challenging project you worked on."]>>

PageFallbackHrQuestions ==
    <<[question |-> "Tell me about yourself and your background."],
      [question |-> "Describe a challenging project you worked on."],
      [question |-> "How do you handle tight deadlines and pressure?"],
      [question |-> "Where do you see yourself in 5 years?"],
      [question |-> "Why are you interested in this role?"]>>

generate_hr_questions(outcome) ==
    IF outcome = "error" THEN Raised
    ELSE IF outcome = "invalid_json" THEN Returned(GatewayFallbackHrQuestions)
    ELSE Returned(GeneratedHrQuestions)

JsonHrAnalysis ==
    [communication_score |-> 8, relevance_score |-> 7, depth_score |-> 6,
     feedback |-> "Constructive feedback paragraph"]

FallbackHrAnalysis ==
    [communication_score |-> 5, relevance_score |-> 5, depth_score |-> 5,
     feedback |-> "Unable to fully analyze."]

\* an analysis is of the response to the question it was asked about (the
\* first argument of analyze_hr_response)
AnalysisOf(analysis, question) ==
    [k \in DOMAIN analysis \cup {"question"} |->
        IF k = "question" THEN question ELSE analysis[k]]

analyze_hr_response(outcome) ==
    IF outcome = "error" THEN Raised
    ELSE IF outcome = "invalid_json" THEN Returned(FallbackHrAnalysis)
    ELSE Returned(JsonHrAnalysis)

ResumeSkills == [skills |-> <<"python">>, summary |-> "summary"]

FallbackResumeSkills == [skills |-> <<>>, summary |-> "Unable to parse resume"]

extract_resume_skills(outcome) ==
    IF outcome = "error" THEN Raised
    ELSE IF outcome = "invalid_json" THEN Returned(FallbackResumeSkills)
    ELSE Returned(ResumeSkills)

\* the turn of the voice agent is returned as it is, never parsed
voice_agent_respond(outcome) ==
    IF outcome = "error" THEN Raised ELSE Returned(<<InterviewerReply>>)

VoiceEvaluation == [overall_score |-> 8, final_feedback_summary |-> "summary"]

FallbackVoiceEvaluation ==
    [overall_score |-> 5,
     final_feedback_summary |-> "Could not parse evaluation. Please try again."]

\* the definition of voice_agent_final_evaluation that is in force: the last
\* of the three in the module
voice_agent_final_evaluation(outcome) ==
    IF outcome = "error" THEN Raised
    ELSE IF outcome = "invalid_json" THEN Returned(FallbackVoiceEvaluation)
    ELSE Returned(VoiceEvaluation)

\* _chat: the provider call failed (or no client is configured) and _chat
\* raises RuntimeError, or it hands back message.content
ChatFailed == [failed |-> TRUE]
ChatReplied(content) == [failed |-> FALSE, content |-> content]

\* tokens of a reply: the markdown fence and one valid JSON value; any other
\* token is text that is not JSON
Fence == "(fence)"
JsonToken == "(json value)"

StartsWithFence(t) == t # <<>> /\ Head(t) = Fence

\* result.split("\n", 1)[1], for a text that holds a newline
RECURSIVE AfterFirstNewline(_)
AfterFirstNewline(t) ==
    IF Head(t) = "\n" THEN Tail(t) ELSE AfterFirstNewline(Tail(t))

\* text.rsplit(fence, 1)[0]
RECURSIVE BeforeLastFence(_)
BeforeLastFence(t) ==
    IF Fence \notin Range(t) THEN t
    ELSE IF t[Len(t)] = Fence THEN SubSeq(t, 1, Len(t) - 1)
    ELSE BeforeLastFence(SubSeq(t, 1, Len(t) - 1))

\* json.loads accepts one value with whitespace around it
JsonLoads(t) == Strip(t) = <<JsonToken>>

\* the body every parsing operation runs on what _chat gave it, as the
\* outcome the operation then acts on.  strip_first: the fence test is made
\* on result.strip(); catch_all: the handler is "except Exception"
ParseOutcome(upstream, strip_first, catch_all) ==
    IF upstream.failed THEN "error"
    ELSE LET result == upstream.content
             other_error == IF catch_all THEN "invalid_json" ELSE "error"
         IN IF result = NoText THEN other_error
            ELSE LET fenced == StartsWithFence(IF strip_first THEN Strip(result) ELSE result)
                 IN IF fenced /\ "\n" \notin Range(result) THEN other_error
                    ELSE LET text == IF fenced THEN BeforeLastFence(AfterFirstNewline(result))
                                     ELSE result
                         IN IF JsonLoads(text) THEN "json" ELSE "invalid_json"

\* the operations that return the reply as text
TextOutcome(upstream) == IF upstream.failed THEN "error" ELSE "json"

JsonOperations ==
    {"extract_resume_skills", "generate_dsa_question", "analyze_candidate_response",
     "generate_hr_questions", "analyze_hr_response", "generate_final_report",
     "voice_agent_final_evaluation"}

TextOperations == {"generate_interviewer_response", "voice_agent_respond"}

GatewayOperations == JsonOperations \cup TextOperations

GatewayCall(operation, upstream) ==
    LET outcome == ParseOutcome(upstream, FALSE, FALSE)
    IN CASE operation = "extract_resume_skills" -> extract_resume_skills(outcome)
         [] operation = "generate_dsa_question" -> generate_dsa_question(outcome)
         [] operation = "analyze_candidate_response" -> analyze_candidate_response(outcome)
         [] operation = "generate_hr_questions" -> generate_hr_questions(outcome)
         [] operation = "analyze_hr_response" -> analyze_hr_response(outcome)
         [] operation = "generate_final_report" -> generate_final_report(outcome, FullReport)
         [] operation = "voice_agent_final_evaluation" -> voice_agent_final_evaluation(ParseOutcome(upstream, TRUE, TRUE))
         [] operation = "generate_interviewer_response" -> generate_interviewer_response(TextOutcome(upstream))
         [] operation = "voice_agent_respond" -> voice_agent_respond(TextOutcome(upstream))

\* what an operation gives for a reply it cannot parse, and for the JSON value
Fallback(operation) ==
    CASE operation = "extract_resume_skills" -> FallbackResumeSkills
      [] operation = "generate_dsa_question" -> GatewayFallbackQuestion
      [] operation = "analyze_candidate_response" -> FallbackAnalysis
      [] operation = "generate_hr_questions" -> GatewayFallbackHrQuestions
      [] operation = "analyze_hr_response" -> FallbackHrAnalysis
      [] operation = "generate_final_report" -> FallbackReport
      [] operation = "voice_agent_final_evaluation" -> FallbackVoiceEvaluation

Parsed(operation) ==
    CASE operation = "extract_resume_skills" -> ResumeSkills
      [] operation = "generate_dsa_question" -> GeneratedQuestion
      [] operation = "analyze_candidate_response" -> JsonAnalysis
      [] operation = "generate_hr_questions" -> GeneratedHrQuestions
      [] operation = "analyze_hr_response" -> JsonHrAnalysis
      [] operation = "generate_final_report" -> FullReport
      [] operation = "voice_agent_final_evaluation" -> VoiceEvaluation

(***************************************************************************)
(* user_memory.py                                                          *)
(***************************************************************************)
MinFactLen == 10
MinConversationLen == 50

\* _extract_facts_heuristic: the experience pattern is the one the phrases
\* of the model can match
ExtractFactsHeuristic(content) ==
    IF ExperiencePhrase \in Range(content)
    THEN <<[key |-> "years_of_experience", value |-> "3 years", category |-> "skill"]>>
    ELSE <<>>

RECURSIVE SaveFacts(_, _, _, _)
SaveFacts(mem, user_id, session_id, facts) ==
    IF facts = <<>> THEN mem
    ELSE SaveFacts(save_user_memory(mem, user_id, Head(facts).key, Head(facts).value, Head(facts).category, session_id), user_id, session_id, Tail(facts))

\* extract_memories_from_conversation for the one candidate message the
\* pages pass in
extract_memories_from_conversation(mem, user_id, session_id, content) ==
    IF Strip(content) = <<>> \/ TextLen(Strip(content)) < MinFactLen THEN mem
    ELSE SaveFacts(mem, user_id, session_id, ExtractFactsHeuristic(Strip(content)))

RoleLen(role) ==
    CASE role = "interviewer" -> 11
      [] role = "candidate" -> 9
      [] OTHER -> 6

\* len(conv_text): every message contributes "role: content\n"
RECURSIVE ConvTextLen(_)
ConvTextLen(conversation) ==
    IF conversation = <<>> THEN 0
    ELSE RoleLen(Head(conversation).role) + 2 + TextLen(Head(conversation).content) + 1 + ConvTextLen(Tail(conversation))

\* fact lists the model may send back as JSON
AiFactLists == {<<>>, <<[key |-> "favorite_language", value |-> "python", category |-> "preference"]>>}

\* extract_memories_with_ai: every failure is swallowed and saves nothing
extract_memories_with_ai(mem, user_id, session_id, conversation, outcome, facts) ==
    IF ConvTextLen(conversation) < MinConversationLen THEN mem
    ELSE IF outcome # "json" THEN mem
    ELSE SaveFacts(mem, user_id, session_id, facts)

\* what json.loads may give extract_memories_with_ai: a list of items, each
\* a dict or some other value; a dict; a number
JsonItem(is_dict, fields) == [is_dict |-> is_dict, fields |-> fields]
LanguageFact == JsonItem(TRUE, [key |-> "favorite_language", value |-> "python", category |-> "preference"])
HobbyFact == JsonItem(TRUE, [key |-> "years_of_experience", value |-> "3 years", category |-> "hobby"])
KeylessFact == JsonItem(TRUE, [value |-> "python"])
StringItem == JsonItem(FALSE, EmptyDict)
JsonList(items) == [type |-> "list", items |-> items]
JsonDict == [type |-> "dict", items |-> <<>>]
JsonNumber == [type |-> "number", items |-> <<>>]

MemoryCategories == {"general", "preference", "skill", "personal", "interview_style"}

\* the loop over the facts, inside try; fail_at = n > 0: the n-th call of
\* save_user_memory raises.  except Exception: return []
RECURSIVE ExtractLoop(_, _, _, _, _, _)
ExtractLoop(mem, user_id, session_id, items, fail_at, extracted) ==
    IF items = <<>> THEN [raised |-> FALSE, value |-> extracted, memory |-> mem]
    ELSE LET fact == Head(items)
             category == Get(fact.fields, "category", "general")
         IN IF fact.is_dict /\ {"key", "value"} \subseteq DOMAIN fact.fields
            THEN IF fail_at = 1
                 THEN [raised |-> FALSE, value |-> <<>>, memory |-> mem]
                 ELSE ExtractLoop(
                        save_user_memory(mem, user_id, fact.fields.key, fact.fields.value,
                            IF category \in MemoryCategories THEN category ELSE "general",
                            session_id),
                        user_id, session_id, Tail(items),
                        IF fail_at > 1 THEN fail_at - 1 ELSE 0,
                        Append(extracted, fact))
            ELSE ExtractLoop(mem, user_id, session_id, Tail(items), fail_at, extracted)

\* extract_memories_with_ai without the except branch around the gateway
\* call and the parse
ExtractMemoriesWithAi_without_except(mem, user_id, session_id, conversation, importable, upstream, json, fail_at) ==
    LET nothing == [raised |-> FALSE, value |-> <<>>, memory |-> mem]
        raises == [raised |-> TRUE, value |-> <<>>, memory |-> mem]
    IN IF ~importable THEN nothing
       ELSE IF ConvTextLen(conversation) < MinConversationLen THEN nothing
       ELSE IF ParseOutcome(upstream, FALSE, TRUE) # "json" THEN raises
       ELSE IF json.type = "number" THEN raises
       ELSE ExtractLoop(mem, user_id, session_id, json.items, fail_at, <<>>)

\* extract_memories_with_ai with what it returns.  importable: the import of
\* _chat succeeds; upstream: what _chat does; json: the value of the reply
\* when it parses
ExtractMemoriesWithAi(mem, user_id, session_id, conversation, importable, upstream, json, fail_at) ==
    LET nothing == [raised |-> FALSE, value |-> <<>>, memory |-> mem]
    IN IF ~importable THEN nothing
       ELSE IF ConvTextLen(conversation) < MinConversationLen THEN nothing
       ELSE IF ParseOutcome(upstream, FALSE, TRUE) # "json" THEN nothing
       ELSE IF json.type = "number" THEN nothing
       ELSE ExtractLoop(mem, user_id, session_id, json.items, fail_at, <<>>)

(***************************************************************************)
(* database.py: users                                                      *)
(***************************************************************************)
Emails == {"ada@example.org", "bob@example.org"}
Passwords == {"password one", "password two"}
NoPassword == NULL
NoHash == <<>>
NoSalt == 0

\* PBKDF2 of the password under the salt: equal exactly for equal inputs
hash_password(password, salt) == <<password, salt>>

verify_password(password, pwd_hash, salt) ==
    hash_password(password, salt) = pwd_hash

\* the id of the row with this email, NoId when there is none
get_user_by_email(rows, email) ==
    IF \E i \in DOMAIN rows : rows[i].email = email
    THEN CHOOSE i \in DOMAIN rows : rows[i].email = email
    ELSE NoId

\* INSERT OR IGNORE: a row with this email stays as it is.  The salt of a
\* new row is a fresh value, here the row's id.  The id create_user returns
\* is get_user_by_email of the table it leaves
create_user(rows, name, email, password) ==
    IF get_user_by_email(rows, email) # NoId THEN rows
    ELSE Append(rows, [id |-> Len(rows) + 1, name |-> name, email |-> email,
                       password_hash |-> IF password # NoPassword
                                         THEN hash_password(password, Len(rows) + 1)
                                         ELSE NoHash,
                       salt |-> IF password # NoPassword THEN Len(rows) + 1 ELSE NoSalt,
                       last_login |-> -1])

\* the id of the user authenticated, NoId when the password is not accepted
authenticate_user(rows, email, password) ==
    LET user == get_user_by_email(rows, email)
    IN IF user = NoId THEN NoId
       ELSE IF rows[user].password_hash = NoHash \/ rows[user].salt = NoSalt THEN NoId
       ELSE IF verify_password(password, rows[user].password_hash, rows[user].salt)
       THEN user
       ELSE NoId

\* the two users of the store specifications, registered with a password
RegisteredUsers ==
    create_user(create_user(<<>>, "Ada", "ada@example.org", "password one"),
                "Bob", "bob@example.org", "password two")

(***************************************************************************)
(* database.py: auth_tokens                                                *)
(***************************************************************************)
SecondsPerHour == 3600
LoginHours == 168

\* generate_token never returns a token twice: the token of a row is its id;
\* expires_at is the server's clock plus the lifetime (clock kept in UTC)
create_auth_token(tokens, user_id, token_type, expires_in_hours) ==
    Append(tokens,
        [user_id |-> user_id, token |-> Len(tokens) + 1,
         token_type |-> token_type,
         expires_at |-> now + expires_in_hours * SecondsPerHour,
         last_used |-> now, is_active |-> 1])

\* verify_auth_token with the is_active test taken out of the SELECT
verify_auth_token_ignoring_flag(tokens, token) ==
    {i \in DOMAIN tokens :
        /\ tokens[i].token = token
        /\ tokens[i].expires_at > now}

\* the rows the SELECT of verify_auth_token returns
verify_auth_token(tokens, token) ==
    {i \in DOMAIN tokens :
        /\ tokens[i].token = token
        /\ tokens[i].is_active = 1
        /\ tokens[i].expires_at > now}

invalidate_auth_token(tokens, token) ==
    [i \in DOMAIN tokens |->
        IF tokens[i].token = token
        THEN [tokens[i] EXCEPT !.is_active = 0] ELSE tokens[i]]

\* token_type NULL: every token of the user
invalidate_user_tokens(tokens, user_id, token_type) ==
    [i \in DOMAIN tokens |->
        IF /\ tokens[i].user_id = user_id
           /\ token_type # NULL => tokens[i].token_type = token_type
        THEN [tokens[i] EXCEPT !.is_active = 0] ELSE tokens[i]]

get_user_active_tokens(tokens, user_id) ==
    {i \in DOMAIN tokens :
        /\ tokens[i].user_id = user_id
        /\ tokens[i].is_active = 1
        /\ tokens[i].expires_at > now}

(***************************************************************************)
(* browser_lock.py, webcam_proctor.py: the scripts of the interview page   *)
(***************************************************************************)
VIOLATION_COOLDOWN == 12000
DetectionInterval == 1500

WebcamTypes == {"no_face", "multiple_faces", "looking_away"}
LockTypes == {"tab_switch", "window_blur"}

\* d[k] = v
SetKey(d, k, v) == [x \in DOMAIN d \cup {k} |-> IF x = k THEN v ELSE d[x]]

\* a tab that shows no interview: the URL has no query, no script is mounted
\* (integer 0 and NULL stand for an absent query parameter)
InitBrowser ==
    [proctor_violation |-> 0, proctor_type |-> NULL,
     tab_violation |-> 0, violation_type |-> NULL,
     SESSION_ID |-> NoId, proctorViolations |-> 0,
     lastViolationType |-> "", lastViolationTime |-> 0, violationCount |-> 0,
     proctor_violations_ |-> EmptyDict, violations_ |-> EmptyDict,
     Date_now |-> 0, ticks |-> 0, log |-> <<>>]

\* the two components of a session are mounted: each script reads its
\* counter from localStorage and starts with no last violation
MountScripts(b, session_id) ==
    IF b.SESSION_ID = session_id THEN b
    ELSE [b EXCEPT !.SESSION_ID = session_id,
                   !.proctorViolations = Get(b.proctor_violations_, session_id, 0),
                   !.violationCount = Get(b.violations_, session_id, 0),
                   !.lastViolationType = "", !.lastViolationTime = 0]

\* recordProctorViolation with the cooldown test taken out
recordProctorViolation_without_cooldown(b, type) ==
    [b EXCEPT !.lastViolationType = type,
              !.lastViolationTime = b.Date_now,
              !.proctorViolations = @ + 1,
              !.proctor_violations_ =
                   SetKey(@, b.SESSION_ID, b.proctorViolations + 1),
              !.proctor_violation = b.proctorViolations + 1,
              !.proctor_type = type]

recordProctorViolation(b, type) ==
    IF type = b.lastViolationType
       /\ b.Date_now - b.lastViolationTime < VIOLATION_COOLDOWN
    THEN b
    ELSE [b EXCEPT !.lastViolationType = type,
                   !.lastViolationTime = b.Date_now,
                   !.proctorViolations = @ + 1,
                   !.proctor_violations_ =
                        SetKey(@, b.SESSION_ID, b.proctorViolations + 1),
                   !.proctor_violation = b.proctorViolations + 1,
                   !.proctor_type = type]

\* browser_lock.py recordViolation (isLocked is never cleared: no caller of
\* _unlockBrowser)
recordViolation(b, type) ==
    [b EXCEPT !.violationCount = @ + 1,
              !.violations_ = SetKey(@, b.SESSION_ID, b.violationCount + 1),
              !.tab_violation = b.violationCount + 1,
              !.violation_type = type]

(***************************************************************************)
(* Initial state: empty tables, and the session_state of a browser session *)
(* that has signed in (auth_utils.login) and not yet opened an interview.  *)
(***************************************************************************)
InitSessionState ==
    [user_id |-> 1, authenticated |-> TRUE,
     dsa_session_id |-> NoId, dsa_current_question |-> None,
     dsa_question_number |-> 0, dsa_conversation |-> <<>>,
     dsa_questions_asked |-> <<>>, dsa_current_analysis |-> None,
     dsa_interview_active |-> FALSE, dsa_question_db_id |-> NoId,
     dsa_total_questions |-> 3, dsa_last_ai_message |-> <<>>,
     dsa_ending |-> FALSE, dsa_voice_transcript |-> <<>>, dsa_hint_idx |-> 0,
     hr_session_id |-> NoId, hr_questions |-> <<>>, hr_current_idx |-> 0,
     hr_interview_active |-> FALSE, hr_conversation |-> <<>>,
     hr_responses |-> <<>>, hr_last_ai_message |-> <<>>,
     hr_voice_transcript |-> EmptyDict,
     auth_token |-> NoId, proctor_last_violation |-> EmptyDict]

\* history value of an (owner, key) that holds no saved fact
NoFact == [value |-> NULL, at |-> -1]

Init ==
    /\ interview_sessions = <<>>
    /\ interview_questions = <<>>
    /\ chat_messages = <<>>
    /\ interview_recordings = <<>>
    /\ user_memory = <<>>
    /\ tab_violations = <<>>
    /\ proctoring_violations = <<>>
    /\ now = 0
    /\ st = InitSessionState
    /\ listed = <<>>
    /\ browser = InitBrowser
    /\ auth_tokens = <<>>
    /\ users = RegisteredUsers
    /\ saved_facts = [f \in Users \X MemoryKeys |-> NoFact]
    /\ last_call = [op |-> "init"]

\* one second passes
Tick ==
    /\ now < MaxClock
    /\ now' = now + 1
    /\ UNCHANGED <<db_vars, st, listed, users, browser, auth_tokens, saved_facts, last_call>>

(***************************************************************************)
(* The persistence layer called directly: the session and violation        *)
(* operations of database.py in any order.                                 *)
(***************************************************************************)
SessionTypes == {"dsa", "hr"}
TabViolationTypes == {"tab_switch"}
ProctoringTypes == {"no_face"}

\* the pages' call of update_session_scores with the fields of a report
ApplyReport(sessions, session_id, report) ==
    update_session_scores(sessions, session_id,
        Get(report, "overall_score", 0), Get(report, "technical_score", 0),
        Get(report, "communication_score", 0), Get(report, "reasoning_score", 0),
        Get(report, "problem_solving_score", 0), report)

StatusOf(session_id) ==
    IF session_id \in DOMAIN interview_sessions
    THEN interview_sessions[session_id].status ELSE NULL

CallCreateSession ==
    /\ Len(interview_sessions) < MaxSessions
    /\ \E ty \in SessionTypes :
          interview_sessions' = create_session(interview_sessions, st.user_id, ty)
    /\ last_call' = [op |-> "create_session"]
    /\ UNCHANGED <<interview_questions, chat_messages, interview_recordings,
                   user_memory, tab_violations, proctoring_violations, now, st,
                   listed, users, browser, auth_tokens, saved_facts>>

CallUpdateSessionScores ==
    /\ \E id \in 1..MaxSessions, report \in JsonReports :
          /\ interview_sessions' = ApplyReport(interview_sessions, id, report)
          /\ last_call' = [op |-> "update_session_scores", session_id |-> id,
                           before |-> StatusOf(id)]
    /\ UNCHANGED <<interview_questions, chat_messages, interview_recordings,
                   user_memory, tab_violations, proctoring_violations, now, st,
                   listed, users, browser, auth_tokens, saved_facts>>

CallCompleteSession ==
    /\ \E id \in 1..MaxSessions :
          /\ interview_sessions' = complete_session(interview_sessions, id)
          /\ last_call' = [op |-> "complete_session", session_id |-> id,
                           before |-> StatusOf(id)]
    /\ UNCHANGED <<interview_questions, chat_messages, interview_recordings,
                   user_memory, tab_violations, proctoring_violations, now, st,
                   listed, users, browser, auth_tokens, saved_facts>>

CallIncrementTabViolations ==
    /\ Len(tab_violations) + Len(proctoring_violations) < MaxViolations
    /\ \E id \in 1..MaxSessions, ty \in TabViolationTypes :
          /\ increment_tab_violations(id, ty)
          /\ last_call' = [op |-> "increment_tab_violations", session_id |-> id,
                           before |-> StatusOf(id)]
    /\ UNCHANGED <<interview_questions, chat_messages, interview_recordings,
                   user_memory, proctoring_violations, now, st, listed, users, browser, auth_tokens,
                   saved_facts>>

CallSaveProctoringViolation ==
    /\ Len(tab_violations) + Len(proctoring_violations) < MaxViolations
    /\ \E id \in 1..MaxSessions, ty \in ProctoringTypes :
          /\ save_proctoring_violation(id, ty)
          /\ last_call' = [op |-> "save_proctoring_violation", session_id |-> id,
                           before |-> StatusOf(id)]
    /\ UNCHANGED <<interview_sessions, interview_questions, chat_messages,
                   interview_recordings, user_memory, tab_violations, now, st,
                   listed, users, browser, auth_tokens, saved_facts>>

SessionStoreNext ==
    \/ CallCreateSession
    \/ CallUpdateSessionScores
    \/ CallCompleteSession
    \/ CallIncrementTabViolations

SessionStoreSpec == Init /\ [][SessionStoreNext]_vars

ViolationStoreNext ==
    \/ CallCreateSession
    \/ CallIncrementTabViolations
    \/ CallSaveProctoringViolation

ViolationStoreSpec == Init /\ [][ViolationStoreNext]_vars

\* C2: for every session, the stored violation counter equals the number of
\* persisted ViolationEvent rows of that session (tab-switch and webcam rows
\* combined), after every write.
ViolationCounterMatchesEvents ==
    \A s \in DOMAIN interview_sessions :
        interview_sessions[s].tab_violations = ViolationEvents(s)

\* C4: a session's status never leaves a terminal value: once it is completed
\* or abandoned, no operation changes it.
StatusNeverReverses ==
    [][\A s \in DOMAIN interview_sessions :
          interview_sessions[s].status # "in_progress" =>
              interview_sessions'[s].status = interview_sessions[s].status]_vars

\* a completed session on which a status-writing operation acted once more
CompletedSessionWrittenAgain ==
    /\ last_call.op \in {"update_session_scores", "complete_session"}
    /\ last_call.before = "completed"
    /\ interview_sessions[last_call.session_id].status = "completed"

\* C18: the five scores of a session change in no step other than the one
\* that takes the session from in progress to completed: they are written at
\* most once, and no later operation on the session changes them.
ScoresWrittenAtMostOnce ==
    [][\A s \in DOMAIN interview_sessions :
          (\E c \in ScoreColumns :
              interview_sessions'[s][c] # interview_sessions[s][c])
          => /\ interview_sessions[s].status # "completed"
             /\ interview_sessions'[s].status = "completed"]_vars

\* C7: while a session is not completed its five scores are zero and its
\* feedback is empty; a completed session shows either no report at all or
\* every score of the report it stores, never a report written in part.
ScoresWrittenOnlyWithCompletion ==
    \A s \in DOMAIN interview_sessions :
        LET row == interview_sessions[s]
            unwritten == /\ \A c \in ScoreColumns : row[c] = 0
                         /\ row.feedback_json = EmptyDict
        IN /\ row.status # "completed" => unwritten
           /\ row.status = "completed" =>
                 \/ unwritten
                 \/ \A c \in ScoreColumns : row[c] = Get(row.feedback_json, c, 0)

\* a final report was applied to a session that was in progress, next to a
\* session that still is
ReportAppliedToOpenSession ==
    /\ last_call.op = "update_session_scores"
    /\ last_call.before = "in_progress"
    /\ interview_sessions[last_call.session_id].status = "completed"
    /\ interview_sessions[last_call.session_id].feedback_json = FullReport
    /\ \E s \in DOMAIN interview_sessions : interview_sessions[s].status = "in_progress"

(***************************************************************************)
(* The persistence layer called directly: the user_memory operations.      *)
(***************************************************************************)
\* the (owner, key) pairs the direct calls use: two keys of one owner and a
\* key that two owners share
MemorySlots == {<<1, "years_of_experience">>, <<1, "favorite_language">>, <<2, "years_of_experience">>}

CallSaveUserMemory ==
    /\ \E u \in Users, k \in MemoryKeys, v \in MemoryValues, c \in Categories :
          /\ <<u, k>> \in MemorySlots
          /\ MemoryIds(user_memory, u, k) = {} => Len(user_memory) < MaxMemoryRows
          /\ user_memory' = save_user_memory(user_memory, u, k, v, c, NoId)
          /\ saved_facts' = [saved_facts EXCEPT ![<<u, k>>] =
                                [value |-> v, at |-> now]]
          /\ last_call' = [op |-> "save_user_memory", user_id |-> u,
                           memory_key |-> k, memory_value |-> v, category |-> c,
                           previous |-> saved_facts[<<u, k>>].value]
    /\ UNCHANGED <<interview_sessions, interview_questions, chat_messages,
                   interview_recordings, tab_violations, proctoring_violations,
                   now, st, listed, users, browser, auth_tokens>>

CallDeleteUserMemory ==
    /\ \E u \in Users, k \in MemoryKeys :
          /\ <<u, k>> \in MemorySlots
          /\ user_memory' = delete_user_memory(user_memory, u, k)
          /\ saved_facts' = [saved_facts EXCEPT ![<<u, k>>] = NoFact]
          /\ last_call' = [op |-> "delete_user_memory", user_id |-> u,
                           memory_key |-> k]
    /\ UNCHANGED <<interview_sessions, interview_questions, chat_messages,
                   interview_recordings, tab_violations, proctoring_violations,
                   now, st, listed, users, browser, auth_tokens>>

MemoryStoreNext ==
    \/ CallSaveUserMemory
    \/ CallDeleteUserMemory
    \/ Tick

MemoryStoreSpec == Init /\ [][MemoryStoreNext]_vars

\* C5: for every owner and key there is exactly one MemoryFact row if the
\* key was saved and not deleted since (none otherwise), holding the value
\* of the most recent save and an updated_at equal to the time of that save.
MemoryFactsUniqueAndLatest ==
    \A u \in Users, k \in MemoryKeys :
        LET ids == MemoryIds(user_memory, u, k)
        IN IF saved_facts[<<u, k>>] = NoFact
           THEN ids = {}
           ELSE /\ Cardinality(ids) = 1
                /\ \A i \in ids :
                      /\ user_memory[i].memory_value = saved_facts[<<u, k>>].value
                      /\ user_memory[i].updated_at = saved_facts[<<u, k>>].at

\* owner 1 saved years_of_experience as "3 years" and, later, as "4 years"
SavedTwiceLatestWins ==
    /\ last_call.op = "save_user_memory"
    /\ last_call.user_id = 1
    /\ last_call.memory_key = "years_of_experience"
    /\ last_call.memory_value = "4 years"
    /\ last_call.previous = "3 years"
    /\ \E i \in DOMAIN user_memory :
          /\ user_memory[i].user_id = 1
          /\ user_memory[i].memory_key = "years_of_experience"
          /\ user_memory[i].memory_value = "4 years"
          /\ user_memory[i].created_at < user_memory[i].updated_at

\* C6: after save_user_memory for an (owner, key) that already exists, the
\* stored row holds the value, the category and the timestamp of that call.
MemoryUpdateWritesCategory ==
    (last_call.op = "save_user_memory" /\ last_call.previous # NULL) =>
        \A i \in MemoryIds(user_memory, last_call.user_id, last_call.memory_key) :
            /\ user_memory[i].memory_value = last_call.memory_value
            /\ user_memory[i].category = last_call.category
            /\ user_memory[i].updated_at = now

(***************************************************************************)
(* The persistence layer called directly: the chat_messages operations.    *)
(***************************************************************************)
ChatRoles == {"interviewer", "candidate"}

CallSaveChatMessage ==
    /\ Len(chat_messages) < MaxChat
    /\ \E id \in DOMAIN interview_sessions, role \in ChatRoles :
          /\ chat_messages' = save_chat_message(chat_messages, id, role, <<"o", "k">>)
          /\ last_call' = [op |-> "save_chat_message", session_id |-> id]
    /\ UNCHANGED <<interview_sessions, interview_questions, interview_recordings,
                   user_memory, tab_violations, proctoring_violations, now, st,
                   listed, users, browser, auth_tokens, saved_facts>>

\* get_chat_messages: the ids of the rows returned, in the order returned
CallGetChatMessages ==
    /\ \E id \in DOMAIN interview_sessions :
          /\ listed' \in OrderByTimestamp(id)
          /\ last_call' = [op |-> "get_chat_messages", session_id |-> id]
    /\ UNCHANGED <<db_vars, now, st, users, browser, auth_tokens, saved_facts>>

ChatStoreNext ==
    \/ CallCreateSession
    \/ CallSaveChatMessage
    \/ CallGetChatMessages
    \/ Tick

ChatStoreSpec == Init /\ [][ChatStoreNext]_vars

\* C8: get_chat_messages returns the session's messages in exactly the order
\* in which save_chat_message inserted them, with non-decreasing timestamps.
ChatListedInInsertionOrder ==
    last_call.op = "get_chat_messages" =>
        /\ listed = SessionChatIds(last_call.session_id, Len(chat_messages))
        /\ \A i \in 1..(Len(listed) - 1) :
              chat_messages[listed[i]].timestamp
                  <= chat_messages[listed[i + 1]].timestamp

(***************************************************************************)
(* The gateway called directly: every operation on every upstream result.  *)
(***************************************************************************)
\* replies: whitespace, an opening fence with or without tag and newline, a
\* body (nothing, a JSON value, text that is not JSON), a closing fence,
\* whitespace
Replies ==
    {lead \o open \o body \o close \o trail :
        lead \in {<<>>, <<" ">>, <<"\n">>},
        open \in {<<>>, <<Fence>>, <<Fence, "json">>, <<Fence, "\n">>, <<Fence, "json", "\n">>},
        body \in {<<>>, <<JsonToken>>, <<JsonToken, "\n">>, <<"x">>},
        close \in {<<>>, <<Fence>>},
        trail \in {<<>>, <<"\n">>}}

Upstreams == {ChatFailed, ChatReplied(NoText)} \cup {ChatReplied(r) : r \in Replies}

CallGateway ==
    /\ \E operation \in GatewayOperations, upstream \in Upstreams :
          last_call' = [op |-> "gateway", operation |-> operation,
                        upstream |-> upstream,
                        result |-> GatewayCall(operation, upstream)]
    /\ UNCHANGED <<db_vars, now, st, listed, users, browser, auth_tokens, saved_facts>>

GatewayNext == CallGateway

GatewaySpec == Init /\ [][GatewayNext]_vars

\* C11: no gateway operation raises when the upstream call failed; the JSON
\* operations give their fallback value instead.
UpstreamFailureGivesFallback ==
    (last_call.op = "gateway" /\ last_call.upstream.failed) =>
        /\ ~last_call.result.raised
        /\ last_call.operation \in JsonOperations =>
              last_call.result.value = Fallback(last_call.operation)

\* C12: a JSON operation that is handed a reply it cannot parse (no reply, an
\* empty reply, a reply without any JSON value in it, such as a fence with no
\* newline after it) returns its fallback value and does not raise.
UnparsableReplyGivesFallback ==
    (/\ last_call.op = "gateway"
     /\ last_call.operation \in JsonOperations
     /\ ~last_call.upstream.failed
     /\ \/ last_call.upstream.content = NoText
        \/ JsonToken \notin Range(last_call.upstream.content))
    => last_call.result = Returned(Fallback(last_call.operation))

\* a JSON value in a markdown fence: with or without a language tag, with or
\* without whitespace around the fences or a newline after the closing one
FencedJsonReplies ==
    {lead \o <<Fence>> \o tag \o <<"\n">> \o body \o <<Fence>> \o trail :
        lead \in {<<>>, <<" ">>, <<"\n">>}, tag \in {<<>>, <<"json">>},
        body \in {<<JsonToken>>, <<JsonToken, "\n">>}, trail \in {<<>>, <<"\n">>}}

\* C13: a JSON operation gives, for a JSON value wrapped in a markdown fence,
\* the result it gives for the value unwrapped.
FencedJsonParsesAsUnwrapped ==
    (/\ last_call.op = "gateway"
     /\ last_call.operation \in JsonOperations
     /\ ~last_call.upstream.failed
     /\ last_call.upstream.content \in FencedJsonReplies)
    => last_call.result = Returned(Parsed(last_call.operation))

(***************************************************************************)
(* pages/3_DSA_Interview.py: the coding interview.  One action per button  *)
(* handler and one per script run that a rerun starts.                     *)
(***************************************************************************)
Message(role, content) == [role |-> role, content |-> content]

\* the finalize block with no complete_session in the except branch
Finalize_without_fallback(session_id, conversation, r_outcome, json_report, m_outcome, facts) ==
    LET report == generate_final_report(r_outcome, json_report)
    IN /\ interview_sessions' =
              IF report.raised
              THEN interview_sessions
              ELSE ApplyReport(interview_sessions, session_id, report.value)
       /\ user_memory' = extract_memories_with_ai(user_memory, st.user_id, session_id, conversation, m_outcome, facts)

\* the finalize block with the memory extraction placed first and not
\* wrapped in try: its failure ends the handler
Finalize_unguarded_extraction(session_id, conversation, r_outcome, json_report, m_outcome, facts) ==
    LET report == generate_final_report(r_outcome, json_report)
    IN /\ interview_sessions' =
              IF m_outcome # "json"
              THEN interview_sessions
              ELSE IF report.raised
              THEN complete_session(interview_sessions, session_id)
              ELSE ApplyReport(interview_sessions, session_id, report.value)
       /\ user_memory' = extract_memories_with_ai(user_memory, st.user_id, session_id, conversation, m_outcome, facts)

\* the finalize block shared by the end-interview handler and the natural
\* completion: report, scores or bare completion, then memory extraction
Finalize(session_id, conversation, r_outcome, json_report, m_outcome, facts) ==
    LET report == generate_final_report(r_outcome, json_report)
    IN /\ interview_sessions' =
              IF report.raised
              THEN complete_session(interview_sessions, session_id)
              ELSE ApplyReport(interview_sessions, session_id, report.value)
       /\ user_memory' = extract_memories_with_ai(user_memory, st.user_id, session_id, conversation, m_outcome, facts)

\* "Start Interview"
DsaStart ==
    /\ st.user_id # NoId
    /\ ~st.dsa_interview_active
    /\ Len(interview_sessions) < MaxSessions
    /\ \E num_questions \in 1..MaxQuestions :
          st' = [st EXCEPT !.dsa_session_id = Len(interview_sessions) + 1,
                           !.dsa_interview_active = TRUE,
                           !.dsa_question_number = 0,
                           !.dsa_conversation = <<>>,
                           !.dsa_questions_asked = <<>>,
                           !.dsa_total_questions = num_questions]
    /\ interview_sessions' = create_session(interview_sessions, st.user_id, "dsa")
    /\ last_call' = [op |-> "dsa_start"]
    /\ UNCHANGED <<interview_questions, chat_messages, interview_recordings,
                   user_memory, tab_violations, proctoring_violations, now,
                   listed, users, browser, auth_tokens, saved_facts>>

\* "End Interview"
DsaEndClick ==
    /\ st.user_id # NoId
    /\ st.dsa_interview_active
    /\ ~st.dsa_ending
    /\ st' = [st EXCEPT !.dsa_ending = TRUE]
    /\ last_call' = [op |-> "dsa_end_click"]
    /\ UNCHANGED <<db_vars, now, listed, users, browser, auth_tokens, saved_facts>>

\* "Yes, End Interview"
DsaEndConfirm ==
    /\ st.user_id # NoId
    /\ st.dsa_interview_active
    /\ st.dsa_ending
    /\ \E r_outcome \in ChatOutcomes, json_report \in JsonReports,
          m_outcome \in ChatOutcomes, facts \in AiFactLists :
          /\ r_outcome # "json" => json_report = FullReport
          /\ m_outcome # "json" => facts = <<>>
          /\ Finalize(st.dsa_session_id, st.dsa_conversation, r_outcome, json_report, m_outcome, facts)
          /\ last_call' = [op |-> "dsa_end_confirm", session_id |-> st.dsa_session_id,
                           report |-> r_outcome,
                           memory |-> m_outcome]
    /\ st' = [st EXCEPT !.dsa_interview_active = FALSE, !.dsa_ending = FALSE]
    /\ UNCHANGED <<interview_questions, chat_messages, interview_recordings,
                   tab_violations, proctoring_violations, now, listed, users, browser, auth_tokens,
                   saved_facts>>

\* "No, Continue"
DsaEndCancel ==
    /\ st.user_id # NoId
    /\ st.dsa_interview_active
    /\ st.dsa_ending
    /\ st' = [st EXCEPT !.dsa_ending = FALSE]
    /\ last_call' = [op |-> "dsa_end_cancel"]
    /\ UNCHANGED <<db_vars, now, listed, users, browser, auth_tokens, saved_facts>>

\* script run with no current question and every question asked
DsaNaturalCompletion ==
    /\ st.user_id # NoId
    /\ st.dsa_interview_active
    /\ ~st.dsa_ending
    /\ st.dsa_current_question = None
    /\ st.dsa_question_number >= st.dsa_total_questions
    /\ \E r_outcome \in ChatOutcomes, json_report \in JsonReports,
          m_outcome \in ChatOutcomes, facts \in AiFactLists :
          /\ r_outcome # "json" => json_report = FullReport
          /\ m_outcome # "json" => facts = <<>>
          /\ Finalize(st.dsa_session_id, st.dsa_conversation, r_outcome, json_report, m_outcome, facts)
          /\ last_call' = [op |-> "dsa_natural_completion",
                           session_id |-> st.dsa_session_id, report |-> r_outcome,
                           memory |-> m_outcome]
    /\ st' = [st EXCEPT !.dsa_interview_active = FALSE]
    /\ UNCHANGED <<interview_questions, chat_messages, interview_recordings,
                   tab_violations, proctoring_violations, now, listed, users, browser, auth_tokens,
                   saved_facts>>

\* script run with no current question and questions left: generate one
DsaGenerateQuestion ==
    /\ st.user_id # NoId
    /\ st.dsa_interview_active
    /\ ~st.dsa_ending
    /\ st.dsa_current_question = None
    /\ st.dsa_question_number < st.dsa_total_questions
    /\ Len(chat_messages) < MaxChat
    /\ \E outcome \in ChatOutcomes :
          LET generated == generate_dsa_question(outcome)
              question == IF generated.raised THEN PageFallbackQuestion
                          ELSE generated.value
          IN /\ st' = [st EXCEPT
                         !.dsa_current_question = question,
                         !.dsa_questions_asked = Append(@, question.title),
                         !.dsa_question_db_id = Len(interview_questions) + 1,
                         !.dsa_conversation = Append(@, Message("interviewer", <<QuestionIntro>>))]
             /\ interview_questions' = save_question(interview_questions, st.dsa_session_id, st.dsa_question_number + 1, question.title)
    /\ chat_messages' = save_chat_message(chat_messages, st.dsa_session_id, "interviewer", <<QuestionIntro>>)
    /\ last_call' = [op |-> "dsa_generate_question", session_id |-> st.dsa_session_id]
    /\ UNCHANGED <<interview_sessions, interview_recordings, user_memory,
                   tab_violations, proctoring_violations, now, listed, users, browser, auth_tokens,
                   saved_facts>>

\* the page below the question block is rendered: the response buttons exist
DsaQuestionShown ==
    /\ st.user_id # NoId
    /\ st.dsa_interview_active
    /\ ~st.dsa_ending
    /\ st.dsa_current_question # None

\* "Transcribe Audio"
DsaTranscribe ==
    /\ DsaQuestionShown
    /\ \E transcript \in VoiceInputs :
          st' = [st EXCEPT !.dsa_voice_transcript = transcript]
    /\ last_call' = [op |-> "dsa_transcribe"]
    /\ UNCHANGED <<db_vars, now, listed, users, browser, auth_tokens, saved_facts>>

\* combined_explanation of the submit handler
DsaCombinedExplanation(voice_transcript, text_resp) ==
    (IF voice_transcript # <<>> THEN VoiceLabel \o voice_transcript \o <<"\n">> ELSE <<>>)
    \o (IF text_resp # <<>> THEN TextLabel \o text_resp ELSE <<>>)

\* the guard of the submit handler: TRUE when the response is turned down
DsaSubmitRejected(code, combined_explanation) ==
    Strip(combined_explanation) = <<>> /\ Strip(code) = <<>>

\* candidate_msg of the submit handler
DsaCandidateMsg(code, combined_explanation) ==
    (IF Strip(code) # <<>> THEN <<CodeOpen>> \o code \o <<CodeClose>> ELSE <<>>)
    \o (IF Strip(combined_explanation) # <<>> THEN <<ExplanationLabel>> \o combined_explanation ELSE <<>>)

AnalysisScore(analysis, part) == Get(Get(analysis, part, EmptyDict), "score", 0) * 10

\* "Submit Response & Get Feedback"
DsaSubmit ==
    /\ DsaQuestionShown
    /\ Len(chat_messages) + 2 <= MaxChat
    /\ \E code \in CodeInputs, text_resp \in TextInputs,
          a_outcome \in ChatOutcomes, i_outcome \in ChatOutcomes :
        /\ a_outcome = "error" => i_outcome = "error"
        /\ LET voice_transcript == st.dsa_voice_transcript
               session_id == st.dsa_session_id
               combined_explanation == DsaCombinedExplanation(voice_transcript, text_resp)
               candidate_msg == DsaCandidateMsg(code, combined_explanation)
               analysis == analyze_candidate_response(a_outcome)
               reply == generate_interviewer_response(i_outcome)
               with_candidate == Append(st.dsa_conversation, Message("candidate", candidate_msg))
               chat_candidate == save_chat_message(chat_messages, session_id, "candidate", candidate_msg)
               rec_candidate == save_recording_event(save_recording_event(interview_recordings, session_id, "code_snapshot"), session_id, "conversation")
               unavailable == Message("system", <<UnavailableMessage>>)
           IN /\ last_call' = [op |-> "dsa_submit", code |-> code,
                               explanation |-> voice_transcript \o text_resp,
                               response |-> combined_explanation,
                               message |-> candidate_msg,
                               session_id |-> session_id,
                               question_id |-> st.dsa_question_db_id,
                               analysis |-> a_outcome]
              /\ IF DsaSubmitRejected(code, combined_explanation)
                 THEN UNCHANGED <<db_vars, st>>
                 ELSE /\ user_memory' = extract_memories_from_conversation(user_memory, st.user_id, session_id, combined_explanation)
                      /\ IF analysis.raised
                         THEN /\ st' = [st EXCEPT
                                          !.dsa_conversation = Append(with_candidate, unavailable),
                                          !.dsa_voice_transcript = <<>>]
                              /\ chat_messages' = chat_candidate
                              /\ interview_recordings' = rec_candidate
                              /\ interview_questions' = update_question_response(interview_questions, st.dsa_question_db_id, combined_explanation, code, voice_transcript, None, 0, 0, 0)
                         ELSE IF reply.raised
                         THEN /\ st' = [st EXCEPT
                                          !.dsa_current_analysis = analysis.value,
                                          !.dsa_conversation = Append(with_candidate, unavailable),
                                          !.dsa_voice_transcript = <<>>]
                              /\ chat_messages' = chat_candidate
                              /\ interview_recordings' = rec_candidate
                              /\ interview_questions' = update_question_response(interview_questions, st.dsa_question_db_id, combined_explanation, code, voice_transcript, None, 0, 0, 0)
                         ELSE /\ st' = [st EXCEPT
                                          !.dsa_current_analysis = analysis.value,
                                          !.dsa_conversation = Append(with_candidate, Message("interviewer", reply.value)),
                                          !.dsa_last_ai_message = reply.value,
                                          !.dsa_voice_transcript = <<>>]
                              /\ chat_messages' = save_chat_message(chat_candidate, session_id, "interviewer", reply.value)
                              /\ interview_recordings' = save_recording_event(save_recording_event(rec_candidate, session_id, "analysis"), session_id, "conversation")
                              /\ interview_questions' = update_question_response(interview_questions, st.dsa_question_db_id, combined_explanation, code, voice_transcript, analysis.value, AnalysisScore(analysis.value, "code_correctness"), AnalysisScore(analysis.value, "approach_analysis"), AnalysisScore(analysis.value, "communication_analysis"))
                      /\ UNCHANGED <<interview_sessions, tab_violations, proctoring_violations>>
    /\ UNCHANGED <<now, listed, users, browser, auth_tokens, saved_facts>>

\* "Next Question"
DsaNextQuestion ==
    /\ DsaQuestionShown
    /\ st' = [st EXCEPT !.dsa_question_number = @ + 1,
                        !.dsa_current_question = None,
                        !.dsa_current_analysis = None,
                        !.dsa_voice_transcript = <<>>]
    /\ last_call' = [op |-> "dsa_next_question"]
    /\ UNCHANGED <<db_vars, now, listed, users, browser, auth_tokens, saved_facts>>

\* "Get Hint": the hint goes into the in-memory conversation only
DsaHint ==
    /\ DsaQuestionShown
    /\ st.dsa_hint_idx < MaxHints
    /\ LET hints == st.dsa_current_question.hints
           hint_idx == IF st.dsa_hint_idx < Len(hints) - 1 THEN st.dsa_hint_idx
                       ELSE Len(hints) - 1
       IN /\ hints # <<>>
          /\ st' = [st EXCEPT
                      !.dsa_conversation = Append(@, Message("interviewer", <<"Hint:", hints[hint_idx + 1]>>)),
                      !.dsa_hint_idx = hint_idx + 1]
    /\ last_call' = [op |-> "dsa_hint", session_id |-> st.dsa_session_id]
    /\ UNCHANGED <<db_vars, now, listed, users, browser, auth_tokens, saved_facts>>

DsaNext ==
    \/ DsaStart
    \/ DsaEndClick
    \/ DsaEndConfirm
    \/ DsaEndCancel
    \/ DsaNaturalCompletion
    \/ DsaGenerateQuestion
    \/ DsaTranscribe
    \/ DsaSubmit
    \/ DsaNextQuestion

DsaSpec == Init /\ [][DsaNext]_vars

\* C1: every completed session has its five scores within 0..100 and a
\* feedback that is not empty.
CompletedSessionsHaveScoresAndFeedback ==
    \A s \in DOMAIN interview_sessions :
        interview_sessions[s].status = "completed" =>
            /\ \A c \in ScoreColumns : interview_sessions[s][c] \in 0..100
            /\ interview_sessions[s].feedback_json # EmptyDict

\* C3: the question numbers of the Question rows of every session are
\* pairwise distinct and are exactly 1..n.
QuestionNumbersContiguous ==
    \A s \in DOMAIN interview_sessions :
        LET rows == SessionRows(interview_questions, s)
        IN /\ \A a, b \in rows :
                 a # b => interview_questions[a].question_number # interview_questions[b].question_number
           /\ QuestionNumbers(s) = 1..Cardinality(rows)

\* C9: a submit whose code and explanation are both empty after trimming
\* changes no table and no session state.
EmptySubmitChangesNothing ==
    [][(/\ last_call'.op \in {"dsa_submit", "hr_submit"}
        /\ Strip(last_call'.code) = <<>>
        /\ Strip(last_call'.explanation) = <<>>)
       => UNCHANGED <<db_vars, st>>]_vars

(***************************************************************************)
(* pages/4_HR_Interview.py: the behavioral interview.                      *)
(***************************************************************************)
RECURSIVE SaveHrQuestions(_, _, _, _)
SaveHrQuestions(questions, session_id, hr_questions, i) ==
    IF i > Len(hr_questions) THEN questions
    ELSE SaveHrQuestions(save_question(questions, session_id, i, hr_questions[i].question), session_id, hr_questions, i + 1)

\* the page passed require_auth and the sign-in check
HrPageOpen ==
    /\ st.authenticated
    /\ st.user_id # NoId

\* "Start HR Interview"
HrStart ==
    /\ HrPageOpen
    /\ ~st.hr_interview_active
    /\ Len(interview_sessions) < MaxSessions
    /\ Len(chat_messages) < MaxChat
    /\ \E outcome \in ChatOutcomes :
          LET session_id == Len(interview_sessions) + 1
              generated == generate_hr_questions(outcome)
              hr_questions == IF generated.raised THEN PageFallbackHrQuestions
                              ELSE generated.value
          IN /\ st' = [st EXCEPT
                         !.hr_session_id = session_id,
                         !.hr_questions = hr_questions,
                         !.hr_current_idx = 0,
                         !.hr_interview_active = TRUE,
                         !.hr_conversation = <<Message("interviewer", <<HrIntro>>)>>,
                         !.hr_responses = <<>>,
                         !.hr_last_ai_message = <<HrIntro>>]
             /\ interview_questions' = SaveHrQuestions(interview_questions, session_id, hr_questions, 1)
             /\ chat_messages' = save_chat_message(chat_messages, session_id, "interviewer", <<HrIntro>>)
             /\ last_call' = [op |-> "hr_start", session_id |-> session_id]
    /\ interview_sessions' = create_session(interview_sessions, st.user_id, "hr")
    /\ UNCHANGED <<interview_recordings, user_memory, tab_violations,
                   proctoring_violations, now, listed, users, browser, auth_tokens, saved_facts>>

\* "End Interview"
HrEnd ==
    /\ HrPageOpen
    /\ st.hr_interview_active
    /\ \E r_outcome \in ChatOutcomes, json_report \in JsonReports,
          m_outcome \in ChatOutcomes, facts \in AiFactLists :
          /\ r_outcome # "json" => json_report = FullReport
          /\ m_outcome # "json" => facts = <<>>
          /\ Finalize(st.hr_session_id, st.hr_conversation, r_outcome, json_report, m_outcome, facts)
          /\ last_call' = [op |-> "hr_end", session_id |-> st.hr_session_id,
                           report |-> r_outcome,
                           memory |-> m_outcome]
    /\ st' = [st EXCEPT !.hr_interview_active = FALSE]
    /\ UNCHANGED <<interview_questions, chat_messages, interview_recordings,
                   tab_violations, proctoring_violations, now, listed, users, browser, auth_tokens,
                   saved_facts>>

\* script run with every question passed
HrNaturalCompletion ==
    /\ HrPageOpen
    /\ st.hr_interview_active
    /\ st.hr_current_idx >= Len(st.hr_questions)
    /\ \E r_outcome \in ChatOutcomes, json_report \in JsonReports,
          m_outcome \in ChatOutcomes, facts \in AiFactLists :
          /\ r_outcome # "json" => json_report = FullReport
          /\ m_outcome # "json" => facts = <<>>
          /\ Finalize(st.hr_session_id, st.hr_conversation, r_outcome, json_report, m_outcome, facts)
          /\ last_call' = [op |-> "hr_natural_completion",
                           session_id |-> st.hr_session_id, report |-> r_outcome,
                           memory |-> m_outcome]
    /\ st' = [st EXCEPT !.hr_interview_active = FALSE]
    /\ UNCHANGED <<interview_questions, chat_messages, interview_recordings,
                   tab_violations, proctoring_violations, now, listed, users, browser, auth_tokens,
                   saved_facts>>

\* the page below the question card is rendered: the response buttons exist
HrQuestionShown ==
    /\ HrPageOpen
    /\ st.hr_interview_active
    /\ st.hr_current_idx < Len(st.hr_questions)

\* "Transcribe": the transcript is kept under a key of the question index
HrTranscribe ==
    /\ HrQuestionShown
    /\ \E transcript \in VoiceInputs :
          st' = [st EXCEPT !.hr_voice_transcript =
                    [k \in DOMAIN @ \cup {st.hr_current_idx} |->
                        IF k = st.hr_current_idx THEN transcript ELSE @[k]]]
    /\ last_call' = [op |-> "hr_transcribe"]
    /\ UNCHANGED <<db_vars, now, listed, users, browser, auth_tokens, saved_facts>>

\* combined of the submit handler
HrCombined(text_resp, voice_transcript) ==
    Strip(text_resp \o <<" ">> \o voice_transcript)

\* "Submit Answer"
HrSubmitWithin(max_chat) ==
    /\ HrQuestionShown
    /\ Len(chat_messages) + 2 <= max_chat
    /\ \E text_resp \in TextInputs, a_outcome \in ChatOutcomes :
        LET current_idx == st.hr_current_idx
            session_id == st.hr_session_id
            voice_transcript == Get(st.hr_voice_transcript, current_idx, <<>>)
            combined == HrCombined(text_resp, voice_transcript)
            analysis == analyze_hr_response(a_outcome)
            db_questions == get_session_questions(interview_questions, session_id)
            with_candidate == Append(st.hr_conversation, Message("candidate", combined))
            chat_candidate == save_chat_message(chat_messages, session_id, "candidate", combined)
            rec_candidate == save_recording_event(interview_recordings, session_id, "conversation")
        IN /\ last_call' = [op |-> "hr_submit", code |-> <<>>,
                            explanation |-> text_resp \o voice_transcript,
                            response |-> combined,
                            message |-> combined,
                            session_id |-> session_id,
                            question_id |-> IF current_idx < Len(db_questions)
                                            THEN db_questions[current_idx + 1]
                                            ELSE NoId,
                            analysis |-> a_outcome]
           /\ IF combined = <<>>
              THEN UNCHANGED <<db_vars, st>>
              ELSE /\ user_memory' = extract_memories_from_conversation(user_memory, st.user_id, session_id, combined)
                   /\ IF analysis.raised
                      THEN /\ st' = [st EXCEPT !.hr_conversation = Append(with_candidate, Message("system", <<UnavailableMessage>>))]
                           /\ chat_messages' = chat_candidate
                           /\ interview_recordings' = rec_candidate
                           /\ UNCHANGED interview_questions
                      ELSE LET feedback_msg == <<Get(analysis.value, "feedback", "Thank you for your response.")>>
                           IN /\ st' = [st EXCEPT
                                          !.hr_responses = Append(@, AnalysisOf(analysis.value, current_idx)),
                                          !.hr_conversation = Append(with_candidate, Message("interviewer", feedback_msg)),
                                          !.hr_last_ai_message = feedback_msg]
                              /\ chat_messages' = save_chat_message(chat_candidate, session_id, "interviewer", feedback_msg)
                              /\ interview_recordings' = save_recording_event(save_recording_event(rec_candidate, session_id, "analysis"), session_id, "conversation")
                              /\ interview_questions' =
                                    IF current_idx < Len(db_questions)
                                    THEN update_question_response(interview_questions, db_questions[current_idx + 1], combined, NoText, voice_transcript, analysis.value, 0, Get(analysis.value, "relevance_score", 0) * 10, Get(analysis.value, "communication_score", 0) * 10)
                                    ELSE interview_questions
                   /\ UNCHANGED <<interview_sessions, tab_violations, proctoring_violations>>
    /\ UNCHANGED <<now, listed, users, browser, auth_tokens, saved_facts>>

HrSubmit == HrSubmitWithin(MaxChat)

\* "Next Question"
HrNextQuestion ==
    /\ HrQuestionShown
    /\ LET idx == st.hr_current_idx + 1
       IN st' = [st EXCEPT
                   !.hr_current_idx = idx,
                   !.hr_conversation =
                       IF idx < Len(st.hr_questions)
                       THEN Append(@, Message("interviewer", <<MoveOn, st.hr_questions[idx + 1].question>>))
                       ELSE @]
    /\ last_call' = [op |-> "hr_next_question"]
    /\ UNCHANGED <<db_vars, now, listed, users, browser, auth_tokens, saved_facts>>

HrNext ==
    \/ HrStart
    \/ HrEnd
    \/ HrNaturalCompletion
    \/ HrTranscribe
    \/ HrSubmit
    \/ HrNextQuestion

HrSpec == Init /\ [][HrNext]_vars

\* C10: after a submit that was not turned down, whatever the gateway did,
\* the candidate's ChatMessage exists in the session and the current Question
\* row holds the candidate's response text.
SubmittedResponsePersisted ==
    (/\ last_call.op \in {"dsa_submit", "hr_submit"}
     /\ Strip(last_call.code \o last_call.explanation) # <<>>)
    => /\ \E m \in SessionRows(chat_messages, last_call.session_id) :
             /\ chat_messages[m].role = "candidate"
             /\ chat_messages[m].content = last_call.message
       /\ last_call.question_id \in DOMAIN interview_questions
       /\ interview_questions[last_call.question_id].candidate_response_text = last_call.response


(***************************************************************************)
(* Proctoring: the scripts of the interview page write violation counts    *)
(* into the URL query; the next run of the page script reads them.         *)
(***************************************************************************)
\* time passes while the scripts run: one detection interval, or a whole
\* cooldown
JsTick ==
    /\ browser.SESSION_ID # NoId
    /\ browser.ticks < MaxJsTicks
    /\ \E ms \in {DetectionInterval, VIOLATION_COOLDOWN} :
          browser' = [browser EXCEPT !.Date_now = @ + ms, !.ticks = @ + 1]
    /\ UNCHANGED <<db_vars, now, st, listed, users, auth_tokens, saved_facts, last_call>>

\* one entry of the history of the webcam detections
Detection(b, type, recorded) ==
    [session_id |-> b.SESSION_ID, type |-> type, at |-> b.Date_now,
     recorded |-> recorded]

\* the detection loop reports a violation of one type
DetectWebcam ==
    /\ browser.SESSION_ID # NoId
    /\ Len(browser.log) < MaxDetections
    /\ \E type \in WebcamTypes :
          LET after == recordProctorViolation(browser, type)
              recorded == after.proctorViolations # browser.proctorViolations
          IN  browser' = [after EXCEPT
                            !.log = Append(@, Detection(browser, type, recorded))]
    /\ UNCHANGED <<db_vars, now, st, listed, users, auth_tokens, saved_facts, last_call>>

\* the tab loses focus (visibilitychange, blur)
DetectFocusLoss ==
    /\ browser.SESSION_ID # NoId
    /\ browser.violationCount < MaxFocusLosses
    /\ \E type \in LockTypes : browser' = recordViolation(browser, type)
    /\ UNCHANGED <<db_vars, now, st, listed, users, auth_tokens, saved_facts, last_call>>

\* a run of the page script of an active coding interview, down to the two
\* inject_ calls: inject_webcam_proctor writes the violations the query
\* reports beyond those it has seen, then both components are rendered
ScriptRun ==
    /\ st.user_id # NoId
    /\ st.dsa_interview_active
    /\ LET session_id == st.dsa_session_id
           js_proctor_count == browser.proctor_violation
           proctor_type == IF browser.proctor_type = NULL THEN "webcam"
                           ELSE browser.proctor_type
           last_seen == Get(st.proctor_last_violation, session_id, 0)
           known == session_id \in DOMAIN interview_sessions
           new == IF js_proctor_count > last_seen /\ known
                  THEN js_proctor_count - last_seen ELSE 0
       IN  /\ tab_violations' = tab_violations \o
                  [k \in 1..new |-> [session_id |-> session_id,
                                     violation_type |-> proctor_type]]
           /\ interview_sessions' =
                  [i \in DOMAIN interview_sessions |->
                      IF i = session_id
                      THEN [interview_sessions[i] EXCEPT !.tab_violations = @ + new]
                      ELSE interview_sessions[i]]
           /\ st' = IF js_proctor_count > last_seen
                    THEN [st EXCEPT !.proctor_last_violation =
                                SetKey(@, session_id, js_proctor_count)]
                    ELSE st
           /\ browser' = MountScripts(browser, session_id)
           /\ last_call' = [op |-> "script_run", session_id |-> session_id,
                             qp |-> [proctor_violation |-> browser.proctor_violation,
                                     tab_violation |-> browser.tab_violation]]
    /\ UNCHANGED <<interview_questions, chat_messages, interview_recordings,
                   user_memory, proctoring_violations, now, listed, users,
                   auth_tokens, saved_facts>>

ProctorNext ==
    \/ DsaStart
    \/ ScriptRun
    \/ JsTick
    \/ DetectWebcam
    \/ DetectFocusLoss

ProctorSpec == Init /\ [][ProctorNext]_vars

\* the page script runs again after every interaction with the page, so a run
\* that would see a query it has not seen yet does take place
ProctorFairSpec == ProctorSpec /\ WF_vars(ScriptRun)


\* the page script has seen every violation the webcam script has counted
Synchronised ==
    /\ browser.SESSION_ID # NoId
    /\ Get(st.proctor_last_violation, browser.SESSION_ID, 0)
           = browser.proctorViolations

\* the webcam script has reported 'no_face' three times and nothing else
ThreeNoFace ==
    /\ Len(browser.log) = 3
    /\ \A i \in 1..3 : browser.log[i].type = "no_face"

WithinWindow == browser.log[3].at - browser.log[1].at < VIOLATION_COOLDOWN

SpacedBeyondWindow ==
    \A i \in 1..2 :
        browser.log[i + 1].at - browser.log[i].at >= VIOLATION_COOLDOWN

\* C14: three 'no_face' detections within the cooldown raise the stored
\* violation counter of the session (0 when it starts) by exactly 1 once the
\* page script has synchronised them, and three detections each a cooldown
\* or more apart raise it by exactly 3.
DebouncedNoFaceCounted ==
    (Synchronised /\ ThreeNoFace)
    => /\ WithinWindow
          => interview_sessions[browser.SESSION_ID].tab_violations = 1
       /\ SpacedBeyondWindow
          => interview_sessions[browser.SESSION_ID].tab_violations = 3

\* three 'no_face' detections at different times within one cooldown have
\* been synchronised
ThreeNoFaceInWindowSynchronised ==
    /\ Synchronised
    /\ ThreeNoFace
    /\ WithinWindow
    /\ browser.log[3].at > browser.log[1].at
    /\ last_call.op = "script_run"

\* three 'no_face' detections a cooldown apart have been synchronised
ThreeNoFaceSpacedSynchronised ==
    /\ Synchronised
    /\ ThreeNoFace
    /\ SpacedBeyondWindow
    /\ last_call.op = "script_run"


\* C19: of the webcam detections that were recorded as violations, no two
\* of the same type lie less than the cooldown apart, whatever detections of
\* other types came between them.
RecordedSameTypeSpacedByCooldown ==
    \A i, j \in DOMAIN browser.log :
        (/\ i < j
         /\ browser.log[i].recorded
         /\ browser.log[j].recorded
         /\ browser.log[i].type = browser.log[j].type)
        => browser.log[j].at - browser.log[i].at >= VIOLATION_COOLDOWN


\* C20: a focus loss that the browser lock has counted is eventually
\* recorded: a tab_violations row of the session with the type the lock
\* reported, and a stored counter that counts it.
FocusLossEventuallyRecorded ==
    (browser.violationCount > 0)
    ~> (/\ \E i \in SessionRows(tab_violations, browser.SESSION_ID) :
              tab_violations[i].violation_type \in LockTypes
        /\ interview_sessions[browser.SESSION_ID].tab_violations
               >= browser.violationCount)


(***************************************************************************)
(* Ending an interview                                                     *)
(***************************************************************************)
\* C15: while an interview is active the end-interview control can be used
\* (coding: "End Interview", then "Yes, End Interview"; behavioural: "End
\* Interview"), and once the end has been confirmed the session is
\* completed and the interview is no longer active, whatever the report
\* gateway call did.
ConfirmedEndFinalizes ==
    /\ last_call.op = "dsa_end_confirm"
       => /\ StatusOf(last_call.session_id) = "completed"
          /\ ~st.dsa_interview_active
    /\ last_call.op = "hr_end"
       => /\ StatusOf(last_call.session_id) = "completed"
          /\ ~st.hr_interview_active
    /\ st.dsa_interview_active => ENABLED (DsaEndClick \/ DsaEndConfirm)
    /\ st.hr_interview_active => ENABLED HrEnd

\* the end was confirmed after the last question had been answered and
\* analysed, and the report gateway call failed
EndedAfterLastAnswerWithoutReport ==
    /\ last_call.op = "dsa_end_confirm"
    /\ last_call.report = "error"
    /\ st.dsa_current_analysis # None
    /\ Len(st.dsa_questions_asked) = st.dsa_total_questions
    /\ StatusOf(last_call.session_id) = "completed"


(***************************************************************************)
(* A coding session of one question, answered once, completed naturally    *)
(***************************************************************************)
ChatRowsOf(session_id, role) ==
    {m \in SessionRows(chat_messages, session_id) : chat_messages[m].role = role}

\* C16: a coding session of one question, for which a question was issued
\* and one response with code and explanation was submitted and which then
\* completed naturally, is completed, has exactly one Question row, that row's analysis is not null,
\* and its ChatMessages hold at least two from the interviewer and one from
\* the candidate.
OneQuestionSessionOutcome ==
    LET session_id == last_call.session_id
        candidate == ChatRowsOf(session_id, "candidate")
        questions == SessionRows(interview_questions, session_id)
    IN  (/\ last_call.op = "dsa_natural_completion"
         /\ st.dsa_total_questions = 1
         /\ questions # {}
         /\ Cardinality(candidate) = 1
         /\ \A m \in candidate :
               /\ CodeOpen \in Range(chat_messages[m].content)
               /\ ExplanationLabel \in Range(chat_messages[m].content))
        => /\ StatusOf(session_id) = "completed"
           /\ Cardinality(questions) = 1
           /\ \A q \in questions : interview_questions[q].ai_analysis # None
           /\ Cardinality(ChatRowsOf(session_id, "interviewer")) >= 2


(***************************************************************************)
(* Authentication: auth_utils.py and the account settings page             *)
(***************************************************************************)
\* auth_utils.login with a password that authenticate_user accepts
login(user_id) ==
    /\ auth_tokens' = create_auth_token(auth_tokens, user_id, "session", LoginHours)
    /\ st' = [st EXCEPT !.authenticated = TRUE, !.user_id = user_id,
                        !.auth_token = Len(auth_tokens) + 1]

\* auth_utils.logout, after the rows have become tokens
logout(tokens) ==
    /\ auth_tokens' = IF st.auth_token # NoId
                      THEN invalidate_auth_token(tokens, st.auth_token)
                      ELSE tokens
    /\ st' = [st EXCEPT !.authenticated = FALSE, !.user_id = NoId,
                        !.auth_token = NoId]

CallLogin ==
    /\ Len(auth_tokens) < MaxTokens
    /\ \E user_id \in Users : login(user_id)
    /\ last_call' = [op |-> "login"]
    /\ UNCHANGED <<db_vars, now, listed, users, browser, saved_facts>>

CallLogout ==
    /\ logout(auth_tokens)
    /\ last_call' = [op |-> "logout"]
    /\ UNCHANGED <<db_vars, now, listed, users, browser, saved_facts>>

\* a token of another kind or lifetime, created through the store
CallCreateAuthToken ==
    /\ Len(auth_tokens) < MaxTokens
    /\ \E user_id \in Users, expires_in_hours \in {0, 24} :
          auth_tokens' = create_auth_token(auth_tokens, user_id, "api",
                                           expires_in_hours)
    /\ last_call' = [op |-> "create_auth_token"]
    /\ UNCHANGED <<db_vars, now, st, listed, users, browser, saved_facts>>

\* verify_auth_token: the user of the row found, and last_used of the token
CallVerifyAuthToken ==
    /\ \E token \in 1..MaxTokens :
          LET found == verify_auth_token(auth_tokens, token)
          IN /\ auth_tokens' =
                    IF found = {} THEN auth_tokens
                    ELSE [i \in DOMAIN auth_tokens |->
                            IF auth_tokens[i].token = token
                            THEN [auth_tokens[i] EXCEPT !.last_used = now]
                            ELSE auth_tokens[i]]
             /\ last_call' = [op |-> "verify_auth_token", token |-> token,
                              accepted |-> found # {}]
    /\ UNCHANGED <<db_vars, now, st, listed, users, browser, saved_facts>>

\* account settings, "Update Password" with valid fields: the current
\* password is checked by a login, then the new hash is stored in users
ChangePassword ==
    /\ st.authenticated
    /\ st.user_id # NoId
    /\ Len(auth_tokens) < MaxTokens
    /\ login(st.user_id)
    /\ last_call' = [op |-> "change_password"]
    /\ UNCHANGED <<db_vars, now, listed, users, browser, saved_facts>>

\* account settings, "Revoke" on one of the listed active tokens
RevokeToken ==
    /\ st.authenticated
    /\ st.user_id # NoId
    /\ \E i \in get_user_active_tokens(auth_tokens, st.user_id) :
          LET token == auth_tokens[i].token
              revoked == invalidate_auth_token(auth_tokens, token)
          IN /\ IF token = st.auth_token
                THEN logout(revoked)
                ELSE auth_tokens' = revoked /\ UNCHANGED st
             /\ last_call' = [op |-> "revoke", token |-> token]
    /\ UNCHANGED <<db_vars, now, listed, users, browser, saved_facts>>

\* account settings, "Revoke All Sessions" (shown when a token is listed)
RevokeAll ==
    /\ st.authenticated
    /\ st.user_id # NoId
    /\ get_user_active_tokens(auth_tokens, st.user_id) # {}
    /\ logout(invalidate_user_tokens(auth_tokens, st.user_id, NULL))
    /\ last_call' = [op |-> "revoke_all"]
    /\ UNCHANGED <<db_vars, now, listed, users, browser, saved_facts>>

AuthNext ==
    \/ CallLogin
    \/ CallLogout
    \/ CallCreateAuthToken
    \/ CallVerifyAuthToken
    \/ ChangePassword
    \/ RevokeToken
    \/ RevokeAll

AuthSpec == Init /\ [][AuthNext]_vars

\* C17: no step removes an auth_tokens row or changes its token, a row whose
\* is_active flag is cleared keeps it cleared, and a verify_auth_token call
\* accepts only a token whose flag was set when it was called.
TokensOnlySoftInvalidated ==
    [][/\ Len(auth_tokens') >= Len(auth_tokens)
       /\ \A i \in DOMAIN auth_tokens :
             /\ auth_tokens'[i].token = auth_tokens[i].token
             /\ auth_tokens'[i].user_id = auth_tokens[i].user_id
             /\ auth_tokens[i].is_active = 0 => auth_tokens'[i].is_active = 0
       /\ (last_call'.op = "verify_auth_token" /\ last_call'.accepted)
          => \E i \in DOMAIN auth_tokens :
                /\ auth_tokens[i].token = last_call'.token
                /\ auth_tokens[i].is_active = 1]_vars

\* verify_auth_token has turned down a token that has not expired and was
\* invalidated, while a newer token of the same user is active
InvalidatedTokenTurnedDown ==
    /\ last_call.op = "verify_auth_token"
    /\ ~last_call.accepted
    /\ \E i, j \in DOMAIN auth_tokens :
          /\ auth_tokens[i].token = last_call.token
          /\ auth_tokens[i].is_active = 0
          /\ auth_tokens[i].expires_at > now
          /\ j > i
          /\ auth_tokens[j].user_id = auth_tokens[i].user_id
          /\ auth_tokens[j].is_active = 1


(***************************************************************************)
(* Finalize: failures of the report and of the memory extraction           *)
(***************************************************************************)
FinalizeOps == {"dsa_end_confirm", "dsa_natural_completion",
                "hr_end", "hr_natural_completion"}

\* C21: after the finalize block of an interview page, by natural completion
\* or by the user's end, the session is completed, whatever the report
\* gateway call and the memory extraction did.
FinalizeAlwaysCompletes ==
    last_call.op \in FinalizeOps
    => StatusOf(last_call.session_id) = "completed"

\* a natural completion in which the report call failed and the memory
\* extraction, given a conversation long enough to be sent, failed too
CompletedThoughReportAndExtractionFailed ==
    /\ last_call.op = "dsa_natural_completion"
    /\ last_call.report = "error"
    /\ last_call.memory # "json"
    /\ ConvTextLen(st.dsa_conversation) >= MinConversationLen
    /\ StatusOf(last_call.session_id) = "completed"


(***************************************************************************)
(* extract_memories_with_ai called with every kind of reply                *)
(***************************************************************************)
LongConversation ==
    <<Message("interviewer", <<QuestionIntro>>),
      Message("candidate", <<ExperiencePhrase>>)>>

ExtractionReplies ==
    {ChatFailed, ChatReplied(NoText), ChatReplied(<<"x">>),
     ChatReplied(<<Fence, "json">>), ChatReplied(<<JsonToken>>),
     ChatReplied(<<Fence, "json", "\n", JsonToken, "\n", Fence>>)}

ExtractionJson ==
    {JsonNumber, JsonDict, JsonList(<<>>), JsonList(<<StringItem>>),
     JsonList(<<KeylessFact>>), JsonList(<<LanguageFact>>),
     JsonList(<<LanguageFact, HobbyFact>>), JsonList(<<StringItem, HobbyFact>>)}

CallExtractMemoriesWithAi ==
    /\ \E user_id \in {st.user_id}, session_id \in 1..MaxSessions,
          conversation \in {<<>>, LongConversation}, importable \in BOOLEAN,
          upstream \in ExtractionReplies, json \in ExtractionJson,
          fail_at \in 0..2 :
          LET result == ExtractMemoriesWithAi(user_memory, user_id, session_id,
                            conversation, importable, upstream, json, fail_at)
              parsed == ParseOutcome(upstream, FALSE, TRUE) = "json"
              sent == importable /\ conversation # <<>>
          IN /\ ~importable => conversation = <<>>
             /\ ~sent => upstream = ChatFailed
             /\ ~parsed => json = JsonNumber /\ fail_at = 0
             /\ user_memory' = result.memory
             /\ last_call' = [op |-> "extract_memories_with_ai",
                              sent |-> sent,
                              importable |-> importable,
                              upstream |-> upstream,
                              json |-> IF parsed THEN json ELSE JsonNumber,
                              fail_at |-> fail_at,
                              raised |-> result.raised,
                              value |-> result.value]
    /\ UNCHANGED <<interview_sessions, interview_questions, chat_messages,
                   interview_recordings, tab_violations, proctoring_violations,
                   now, st, listed, users, browser, auth_tokens, saved_facts>>

ExtractionNext ==
    \/ CallExtractMemoriesWithAi
    \/ Tick

ExtractionSpec == Init /\ [][ExtractionNext]_vars

\* the facts of a reply that the loop saves: dicts with "key" and "value"
RECURSIVE SavableFacts(_)
SavableFacts(items) ==
    IF items = <<>> THEN <<>>
    ELSE (IF Head(items).is_dict
             /\ {"key", "value"} \subseteq DOMAIN Head(items).fields
          THEN <<Head(items)>> ELSE <<>>) \o SavableFacts(Tail(items))

\* the call failed: the gateway is unavailable or raises, the reply is
\* missing or not valid JSON, the value is not a list or holds no savable
\* fact object, or a save raised
ExtractionFailed ==
    \/ ~last_call.importable
    \/ ParseOutcome(last_call.upstream, FALSE, TRUE) # "json"
    \/ last_call.json.type # "list"
    \/ SavableFacts(last_call.json.items) = <<>>
    \/ /\ last_call.fail_at > 0
       /\ last_call.fail_at <= Len(SavableFacts(last_call.json.items))

\* C22: extract_memories_with_ai never raises, and a call that failed
\* returns the empty list, so that it reports no fact as extracted.
ExtractionFailureReturnsEmpty ==
    last_call.op = "extract_memories_with_ai"
    => /\ ~last_call.raised
       /\ ExtractionFailed => last_call.value = <<>>

\* the second save of a reply with two facts raised after the first fact was
\* stored: the call returned the empty list
SecondSaveFailedReturnedEmpty ==
    /\ last_call.op = "extract_memories_with_ai"
    /\ last_call.sent
    /\ last_call.fail_at = 2
    /\ Len(SavableFacts(last_call.json.items)) = 2
    /\ last_call.value = <<>>
    /\ \E i \in DOMAIN user_memory : user_memory[i].memory_key = "favorite_language"


(***************************************************************************)
(* ai_engine.py: the part of a history that goes into the prompt           *)
(***************************************************************************)
MaxHistory == 22

PreviousQuestionsWindow == 5
ConversationWindow == 10
VoiceAgentWindow == 20

\* s[-n:]
LastItems(s, n) ==
    IF Len(s) <= n THEN s ELSE SubSeq(s, Len(s) - n + 1, Len(s))

HistoryOps ==
    {"generate_dsa_question", "analyze_candidate_response",
     "generate_interviewer_response", "voice_agent_respond",
     "voice_agent_final_evaluation"}

\* the items of the history (or of the previous questions) each operation
\* puts into its prompt
PromptHistory(op, history) ==
    CASE op = "generate_dsa_question" -> LastItems(history, PreviousQuestionsWindow)
      [] op = "analyze_candidate_response" -> LastItems(history, ConversationWindow)
      [] op = "generate_interviewer_response" -> LastItems(history, ConversationWindow)
      [] op = "voice_agent_respond" -> LastItems(history, VoiceAgentWindow)
      [] op = "voice_agent_final_evaluation" -> history

\* the n items of a history, oldest first, named by their position
HistoryOf(n) == [i \in 1..n |-> i]

CallWithHistory ==
    /\ \E op \in HistoryOps, n \in 0..MaxHistory :
          last_call' = [op |-> op, history |-> HistoryOf(n),
                        included |-> PromptHistory(op, HistoryOf(n))]
    /\ UNCHANGED <<db_vars, now, st, listed, users, browser, auth_tokens, saved_facts>>

HistoryNext ==
    \/ CallWithHistory
    \/ Tick

HistorySpec == Init /\ [][HistoryNext]_vars

\* C23: every gateway operation that takes a conversation history or the
\* prior questions puts at most 20 of them into the prompt, and those are
\* the most recent ones.
PromptHistoryBounded ==
    last_call.op \in HistoryOps
    => /\ Len(last_call.included) <= VoiceAgentWindow
       /\ last_call.included
              = LastItems(last_call.history, Len(last_call.included))

\* the windowed operations keep to their bounds: 5 titles, 10 messages, 20 turns
WindowedOpsBounded ==
    /\ last_call.op = "generate_dsa_question"
       => last_call.included = LastItems(last_call.history, PreviousQuestionsWindow)
    /\ last_call.op \in {"analyze_candidate_response", "generate_interviewer_response"}
       => last_call.included = LastItems(last_call.history, ConversationWindow)
    /\ last_call.op = "voice_agent_respond"
       => last_call.included = LastItems(last_call.history, VoiceAgentWindow)


\* a submit that went past the empty-answer check
SubmitAccepted ==
    /\ last_call.op = "dsa_submit"
    /\ ~DsaSubmitRejected(last_call.code, last_call.response)

\* C24: every write a submit makes to a Question row goes to a row of the
\* session that is active when the answer is submitted.
SubmitWritesActiveSession ==
    SubmitAccepted
    => /\ last_call.question_id \in DOMAIN interview_questions
       /\ interview_questions[last_call.question_id].session_id
              = last_call.session_id

\* C25: after a submit whose analysis was obtained, the Question row holds
\* an analysis, also when the interviewer reply failed afterwards; and a
\* row that held an analysis holds one after any later submit.
AnalysisKept ==
    /\ [](SubmitAccepted /\ last_call.analysis # "error"
          /\ last_call.question_id \in DOMAIN interview_questions
          => interview_questions[last_call.question_id].ai_analysis # None)
    /\ [][\A q \in DOMAIN interview_questions :
            interview_questions[q].ai_analysis # None
            => interview_questions'[q].ai_analysis # None]_vars


(***************************************************************************)
(* The coding interview with the "Get Hint" button                         *)
(***************************************************************************)
DsaHintNext ==
    \/ DsaNext
    \/ DsaHint

DsaHintSpec == Init /\ [][DsaHintNext]_vars

\* the interviewer and candidate messages of a conversation, in order
RECURSIVE Spoken(_)
Spoken(conversation) ==
    IF conversation = <<>> THEN <<>>
    ELSE (IF Head(conversation).role \in {"interviewer", "candidate"}
          THEN <<[role |-> Head(conversation).role, content |-> Head(conversation).content]>>
          ELSE <<>>) \o Spoken(Tail(conversation))

\* the ChatMessage rows of a session as messages, in insertion order
RECURSIVE PersistedConversation(_, _)
PersistedConversation(rows, session_id) ==
    IF rows = <<>> THEN <<>>
    ELSE (IF Head(rows).session_id = session_id
          THEN <<[role |-> Head(rows).role, content |-> Head(rows).content]>>
          ELSE <<>>) \o PersistedConversation(Tail(rows), session_id)

\* C26: while a coding interview is active, the interviewer and candidate
\* messages of the in-memory conversation are, in order, the persisted
\* ChatMessages of its session.
DsaConversationMatchesChat ==
    st.dsa_interview_active
    => Spoken(st.dsa_conversation)
           = PersistedConversation(chat_messages, st.dsa_session_id)


(***************************************************************************)
(* The behavioural interview with room for two analysed answers            *)
(***************************************************************************)
HrSubmitAgain == HrSubmitWithin(MaxReviewChat)

HrReviewNext ==
    \/ HrStart
    \/ HrSubmitAgain
    \/ HrNextQuestion

HrReviewSpec == Init /\ [][HrReviewNext]_vars

\* the page shows an analysis under the current question
HrAnalysisDisplayed ==
    /\ HrQuestionShown
    /\ Len(st.hr_responses) > st.hr_current_idx

\* C30: the analysis displayed under question index k is the analysis of a
\* response submitted to question k.
DisplayedAnalysisIsOfCurrentQuestion ==
    HrAnalysisDisplayed
    => st.hr_responses[st.hr_current_idx + 1].question = st.hr_current_idx


(***************************************************************************)
(* Signing in: the home page (app.py), auth_utils.py and the page guards   *)
(***************************************************************************)
\* a browser session that has not signed in, and no user yet
HomeInit ==
    /\ interview_sessions = <<>>
    /\ interview_questions = <<>>
    /\ chat_messages = <<>>
    /\ interview_recordings = <<>>
    /\ user_memory = <<>>
    /\ tab_violations = <<>>
    /\ proctoring_violations = <<>>
    /\ now = 0
    /\ st = [InitSessionState EXCEPT !.user_id = NoId, !.authenticated = FALSE]
    /\ listed = <<>>
    /\ browser = InitBrowser
    /\ auth_tokens = <<>>
    /\ users = <<>>
    /\ saved_facts = [f \in Users \X MemoryKeys |-> NoFact]
    /\ last_call = [op |-> "init"]

\* home page, "Sign In": the email alone selects the user
HomeSignIn ==
    /\ \E email \in Emails :
          LET user == get_user_by_email(users, email)
          IN /\ st' = IF user # NoId THEN [st EXCEPT !.user_id = user] ELSE st
             /\ last_call' = [op |-> "home_sign_in", email |-> email,
                              password |-> NoPassword, returned |-> user # NoId,
                              verified |-> FALSE, existed |-> user # NoId]
    /\ UNCHANGED <<db_vars, now, listed, users, browser, auth_tokens, saved_facts>>

\* home page, "Create Free Account": create_user without a password
HomeCreateAccount ==
    /\ \E email \in Emails :
          LET created == create_user(users, "Ada", email, NoPassword)
          IN /\ users' = created
             /\ st' = [st EXCEPT !.user_id = get_user_by_email(created, email)]
             /\ last_call' = [op |-> "home_create_account", email |-> email,
                              password |-> NoPassword, returned |-> TRUE,
                              verified |-> FALSE,
                              existed |-> get_user_by_email(users, email) # NoId]
    /\ UNCHANGED <<db_vars, now, listed, browser, auth_tokens, saved_facts>>

\* auth_utils.register
CallRegister ==
    /\ \E email \in Emails, password \in Passwords :
          LET existing_user == get_user_by_email(users, email)
              refused == /\ existing_user # NoId
                         /\ users[existing_user].password_hash # NoHash
          IN /\ users' = IF refused THEN users
                         ELSE create_user(users, "Ada", email, password)
             /\ last_call' = [op |-> "register", email |-> email,
                              password |-> password, returned |-> ~refused,
                              verified |-> FALSE, existed |-> existing_user # NoId]
    /\ UNCHANGED <<db_vars, now, st, listed, browser, auth_tokens, saved_facts>>

\* auth_utils.login with an email and a password
CallLoginWithPassword ==
    /\ Len(auth_tokens) < MaxTokens
    /\ \E email \in Emails, password \in Passwords :
          LET user == authenticate_user(users, email, password)
          IN /\ IF user # NoId
                THEN /\ users' = [users EXCEPT ![user].last_login = now]
                     /\ login(user)
                ELSE UNCHANGED <<users, auth_tokens, st>>
             /\ last_call' = [op |-> "login", email |-> email,
                              password |-> password, returned |-> user # NoId,
                              verified |-> user # NoId, existed |-> user # NoId]
    /\ UNCHANGED <<db_vars, now, listed, browser, saved_facts>>

\* auth_utils.logout
HomeLogout ==
    /\ st.user_id # NoId
    /\ logout(auth_tokens)
    /\ last_call' = [op |-> "logout"]
    /\ UNCHANGED <<db_vars, now, listed, users, browser, saved_facts>>

\* the behavioural interview page is opened: require_auth lets the script
\* go on or sends the browser back to the home page
OpenHrPage ==
    /\ last_call' = [op |-> "open_hr_page", passed |-> st.authenticated,
                     user_id |-> st.user_id]
    /\ UNCHANGED <<db_vars, now, st, listed, users, browser, auth_tokens, saved_facts>>

HomeNext ==
    \/ HomeSignIn
    \/ HomeCreateAccount
    \/ CallRegister
    \/ CallLoginWithPassword
    \/ HomeLogout
    \/ OpenHrPage
    \/ Tick

HomeSpec == HomeInit /\ [][HomeNext]_vars

SetsUser == {"home_sign_in", "home_create_account", "register", "login"}

\* C27: when register(name, email, password) has returned True, login with
\* this email and password is accepted.
RegisteredCanLogIn ==
    last_call.op = "register" /\ last_call.returned
    => authenticate_user(users, last_call.email, last_call.password) # NoId

\* C28: a step that makes user_id the id of a user who existed before the
\* step has verified the supplied password against the stored hash.
UserIdOnlyAfterVerification ==
    [][/\ st'.user_id # st.user_id
       /\ st'.user_id \in DOMAIN users
       => last_call'.op \in SetsUser /\ last_call'.verified]_vars

\* C29: whenever user_id is set the authenticated flag is true, so the
\* behavioural interview page lets a signed-in user pass.
SignedInPassesRequireAuth ==
    st.user_id # NoId
    => /\ st.authenticated
       /\ last_call.op = "open_hr_page" => last_call.passed

====
